---- MODULE Spec2Model ----
(***************************************************************************)
(* The mapping editor of input-remapper (inputremapper/gui/editor/editor.py)*)
(* as a state machine: the recording toggle, the selection labels, the     *)
(* code editor text, the polled reader and the mapping store.              *)
(***************************************************************************)
EXTENDS Integers, Sequences, FiniteSets, TLC

\* ------------------------------------------------------------------ bounds
MaxLabels == 2      \* selection labels kept in the list
MaxIdle == 2        \* callbacks waiting in the GLib idle queue
MaxText == 5        \* characters of the macro text left of the cursor
MaxRows == 2        \* rows kept in the mapping_list of the SimpleEditor
MaxIdleRows == 1    \* idle callbacks of the SimpleEditor not yet run
MaxTyped == 2       \* characters of a buffer that the user types
MaxBuffer == 8      \* characters of a buffer after a suggestion is inserted
MaxTimeouts == 1    \* popdown timers of the popover not yet run
MaxCalls == 6       \* calls of the debounced function

\* ------------------------------------------------------------- value sets
NoKey == {}                          \* Python None where a Key is expected
Keys == {{"ctrl"}, {"ctrl", "shift"}} \* a Key is the set of its atomic keys
NoSymbol == "None"                   \* Python None where a symbol is expected
Texts == {"", "a", "A"}              \* what the user types into the editor
Unrecognized == "zz"                 \* a text system_mapping does not know
OtherTexts == {Unrecognized, "b"}    \* further texts, typed in SpecAnyText
NoMsg == "none"
CTX_KEYCODE == "already mapped"
CTX_WARNING == "may not combine"

VARIABLES
    selection_labels,         \* Seq of keys: SelectionLabel.key of each row
    active_selection_label,   \* index into selection_labels, 0 is None
    symbol,                   \* text of the code editor buffer
    input_has_arrived,        \* Editor.input_has_arrived
    toggle_active,            \* key_recording_toggle.get_active()
    focus,                    \* widget holding the window focus
    idle_queue,               \* number of GLib.idle_add callbacks not yet run
    custom_mapping,           \* Seq of [key, symbol], insertion order
    unsaved_changes,          \* custom_mapping.has_unsaved_changes()
    unreleased,               \* the reader's unreleased keys
    last,                     \* the handler that ran last and what it did
    session,                  \* history of the current recording session
    mapping_list,             \* SimpleEditor: Seq of rows [key, symbol, state]
    window_focus,             \* SimpleEditor: the row and widget in focus
    idle_rows,                \* SimpleEditor: rows of the idle callbacks
    flag_variant,             \* the recorder of single_editable_mapping.py
    buffer,                   \* Autocompletion: text of the text_input
    cursor,                   \* Autocompletion: characters left of the cursor
    list_box,                 \* Autocompletion: the entries of the popover
    visible,                  \* Autocompletion: the flag self.visible
    is_shown,                 \* Gtk.Popover: the popover is on the screen
    selected_row,             \* Gtk.ListBox: index of the selected row
    debounces,                \* Autocompletion: the timer of update is set
    timeouts,                 \* Autocompletion: popdown timers not yet run
    sources,                  \* GLib: the timeout sources of debounce
    source_id                 \* GLib: the id that timeout_add gave last

rows_vars == <<mapping_list, window_focus, idle_rows, flag_variant>>

popover_vars == <<buffer, cursor, list_box, visible, is_shown, selected_row,
                  debounces, timeouts, sources, source_id>>

vars == <<selection_labels, active_selection_label, symbol, input_has_arrived,
          toggle_active, focus, idle_queue, custom_mapping, unsaved_changes,
          unreleased, last, session, rows_vars, popover_vars>>

NoFocus == [row |-> 0, widget |-> "none"]

\* Gtk.ListBox counts its rows from 0; get_selected_row() and
\* get_row_at_index() give None where there is no such row
NoRow == 0 - 1

NoOut == [sched |-> 0, msg |-> NoMsg, accepted |-> FALSE, changed |-> FALSE,
          raised |-> FALSE, confirm |-> "none"]

\* SingleEditableMapping.__init__ of single_editable_mapping.py
NoVariant == [input_has_arrived |-> FALSE, key |-> NoKey, symbol |-> "",
              custom_mapping |-> <<>>, unsaved_changes |-> FALSE,
              idle_queue |-> 0, out |-> NoOut]

\* The program state as one record, so that handlers compose as functions.
State == [selection_labels |-> selection_labels,
          active_selection_label |-> active_selection_label,
          symbol |-> symbol,
          input_has_arrived |-> input_has_arrived,
          toggle_active |-> toggle_active,
          focus |-> focus,
          idle_queue |-> idle_queue,
          custom_mapping |-> custom_mapping,
          unsaved_changes |-> unsaved_changes,
          unreleased |-> unreleased,
          out |-> NoOut]

\* ------------------------------------------------------------ Key, store
is_problematic(key) == Cardinality(key \cap {"ctrl", "alt", "shift"}) >= 2

has_key(m, key) == \E i \in 1..Len(m) : m[i].key = key

get_symbol(m, key) ==
    IF has_key(m, key)
    THEN m[CHOOSE i \in 1..Len(m) : m[i].key = key].symbol
    ELSE NoSymbol

clear(m, key) == SelectSeq(m, LAMBDA e : e.key # key)

put(m, key, sym) ==
    IF has_key(m, key)
    THEN [i \in 1..Len(m) |-> IF m[i].key = key
                              THEN [key |-> key, symbol |-> sym] ELSE m[i]]
    ELSE Append(m, [key |-> key, symbol |-> sym])

conflict(m, new_key, sym, previous_key) ==
    /\ has_key(m, new_key)
    /\ previous_key # NoKey
    /\ previous_key # new_key
    /\ get_symbol(m, new_key) # sym

\* the entry of previous_key is left in the store
change_keeps_previous(m, new_key, sym, previous_key) ==
    IF conflict(m, new_key, sym, previous_key) THEN m
    ELSE put(m, new_key, sym)

\* custom_mapping.change: the entries after the call (unchanged on ConflictError)
change(m, new_key, sym, previous_key) ==
    IF conflict(m, new_key, sym, previous_key) THEN m
    ELSE put(IF previous_key # NoKey /\ previous_key # new_key
             THEN clear(m, previous_key) ELSE m,
             new_key, sym)

empty(m) == <<>>

correct_case(text) ==
    IF text \in {"a", "A"} THEN "a"
    ELSE IF text = "b" THEN "b"
    ELSE NoSymbol

reader_clear(s) == [s EXCEPT !.unreleased = {}]

save_preset(s) == [s EXCEPT !.unsaved_changes = FALSE]

show_status(s, msg) == [s EXCEPT !.out.msg = msg]

\* --------------------------------------------------------------- Editor
get_key(s) ==
    IF s.active_selection_label = 0 THEN NoKey
    ELSE s.selection_labels[s.active_selection_label]

reset(s) == [s EXCEPT !.input_has_arrived = FALSE]

store_change(s, new_key, sym, previous_key) ==
    LET m == change(s.custom_mapping, new_key, sym, previous_key)
    IN  [s EXCEPT !.custom_mapping = m,
                  !.unsaved_changes = @ \/ m # s.custom_mapping,
                  !.out.changed = TRUE,
                  !.out.raised = @ \/ conflict(s.custom_mapping, new_key, sym,
                                               previous_key)]

\* with the store written although correct_case gave None
save_changes_writes_unrecognized(s) ==
    IF s.symbol = "" THEN s
    ELSE LET cc == correct_case(s.symbol)
             key == get_key(s)
             s1 == [s EXCEPT !.symbol = IF cc = NoSymbol THEN @ ELSE cc]
             s2 == IF key # NoKey
                   THEN store_change(s1, key, s1.symbol, NoKey) ELSE s1
         IN  IF s2.unsaved_changes /\ ~s2.out.raised
             THEN save_preset(s2) ELSE s2

save_changes(s) ==
    IF s.symbol = "" THEN s
    ELSE LET cc == correct_case(s.symbol)
             key == get_key(s)
         IN  IF cc = NoSymbol
             THEN [s EXCEPT !.out.raised = TRUE]
             ELSE LET s1 == [s EXCEPT !.symbol = cc]
                      s2 == IF key # NoKey
                            THEN store_change(s1, key, cc, NoKey) ELSE s1
                  IN  IF s2.unsaved_changes /\ ~s2.out.raised
                      THEN save_preset(s2) ELSE s2

\* the focus-out handlers without toggle.set_active(False)
toggle_focus_out_still_active(s) == reset(s)

toggle_focus_out(s) == [reset(s) EXCEPT !.toggle_active = FALSE]

\* without reader.clear()
on_recording_toggle_focus_without_clear(s) == reset(s)

on_recording_toggle_focus(s) == reader_clear(reset(s))

\* window.set_focus(widget) and a focus change made by the user: the handlers
\* connected to focus-out-event of the widget left and to focus-in-event of
\* the widget entered run before the call returns.
set_focus(s, widget) ==
    IF s.focus = widget THEN s
    ELSE LET left == IF s.focus = "toggle" THEN toggle_focus_out(s)
                     ELSE IF s.focus = "text" THEN save_changes(s)
                     ELSE s
             moved == [left EXCEPT !.focus = widget]
         IN  IF widget = "toggle" THEN on_recording_toggle_focus(moved)
             ELSE moved

\* without the closing self._reset()
switch_focus_without_reset(s) ==
    IF ~s.toggle_active THEN reset(s)
    ELSE LET all_keys_released == s.unreleased = {}
             s1 == IF all_keys_released /\ s.input_has_arrived
                      /\ get_key(s) # NoKey
                   THEN [s EXCEPT !.idle_queue = @ + 1, !.out.sched = @ + 1]
                   ELSE s
         IN  IF ~all_keys_released
             THEN [s1 EXCEPT !.input_has_arrived = TRUE]
             ELSE s1

\* window.set_focus called in the poll instead of GLib.idle_add
switch_focus_at_once(s) ==
    IF ~s.toggle_active THEN reset(s)
    ELSE LET all_keys_released == s.unreleased = {}
             s1 == IF all_keys_released /\ s.input_has_arrived
                      /\ get_key(s) # NoKey
                   THEN set_focus([s EXCEPT !.out.sched = @ + 1], "text")
                   ELSE s
         IN  IF ~all_keys_released
             THEN [s1 EXCEPT !.input_has_arrived = TRUE]
             ELSE reset(s1)

\* without the test of self.input_has_arrived
switch_focus_without_input(s) ==
    IF ~s.toggle_active THEN reset(s)
    ELSE LET all_keys_released == s.unreleased = {}
             s1 == IF all_keys_released /\ get_key(s) # NoKey
                   THEN [s EXCEPT !.idle_queue = @ + 1, !.out.sched = @ + 1]
                   ELSE s
         IN  IF ~all_keys_released
             THEN [s1 EXCEPT !.input_has_arrived = TRUE]
             ELSE reset(s1)

switch_focus_if_complete(s) ==
    IF ~s.toggle_active THEN reset(s)
    ELSE LET all_keys_released == s.unreleased = {}
             s1 == IF all_keys_released /\ s.input_has_arrived
                      /\ get_key(s) # NoKey
                   THEN [s EXCEPT !.idle_queue = @ + 1, !.out.sched = @ + 1]
                   ELSE s
         IN  IF ~all_keys_released
             THEN [s1 EXCEPT !.input_has_arrived = TRUE]
             ELSE reset(s1)

\* without self.input_has_arrived = True (line 407)
accept_key_without_arrival(s, key, previous_key) ==
    LET s2 == [s EXCEPT !.out.accepted = TRUE]
    IN  IF key = get_key(s) THEN s2
        ELSE IF s2.active_selection_label = 0
             THEN [s2 EXCEPT !.out.raised = TRUE]
        ELSE LET s3 == [s2 EXCEPT
                          !.selection_labels[s2.active_selection_label] = key]
             IN  IF s3.symbol = "" THEN s3
                 ELSE store_change(s3, key, s3.symbol, previous_key)

\* lines 402-425: the key is no duplicate; previous_key is what change gets
accept_key(s, key, previous_key) ==
    LET s2 == [s EXCEPT !.input_has_arrived = TRUE, !.out.accepted = TRUE]
    IN  IF key = get_key(s) THEN s2
        ELSE IF s2.active_selection_label = 0
             THEN [s2 EXCEPT !.out.raised = TRUE]
        ELSE LET s3 == [s2 EXCEPT
                          !.selection_labels[s2.active_selection_label] = key]
             IN  IF s3.symbol = "" THEN s3
                 ELSE store_change(s3, key, s3.symbol, previous_key)

\* with a return after the warning, as after the duplicate message
check_key_warning_returns(s, key) ==
    IF get_symbol(s.custom_mapping, key) # NoSymbol
    THEN show_status(s, CTX_KEYCODE)
    ELSE IF is_problematic(key) THEN show_status(s, CTX_WARNING)
    ELSE accept_key(s, key, get_key(s))

\* lines 384-400: the duplicate test and the warning
check_key(s, key) ==
    IF get_symbol(s.custom_mapping, key) # NoSymbol
    THEN show_status(s, CTX_KEYCODE)
    ELSE accept_key(IF is_problematic(key)
                    THEN show_status(s, CTX_WARNING) ELSE s,
                    key, get_key(s))

\* without the test of self._is_waiting_for_input()
consume_while_not_waiting(s0, key) ==
    LET s == switch_focus_if_complete(s0)
    IN  IF key = NoKey THEN s ELSE check_key(s, key)

\* without the return that follows the duplicate message
consume_duplicate_falls_through(s0, key) ==
    LET s == switch_focus_if_complete(s0)
    IN  IF key = NoKey THEN s
        ELSE IF ~s.toggle_active THEN s
        ELSE accept_key(IF get_symbol(s.custom_mapping, key) # NoSymbol
                        THEN show_status(s, CTX_KEYCODE) ELSE s,
                        key, get_key(s))

\* change called without previous_key
consume_forgets_previous_key(s0, key) ==
    LET s == switch_focus_if_complete(s0)
    IN  IF key = NoKey THEN s
        ELSE IF ~s.toggle_active THEN s
        ELSE IF get_symbol(s.custom_mapping, key) # NoSymbol
             THEN show_status(s, CTX_KEYCODE)
        ELSE accept_key(IF is_problematic(key)
                        THEN show_status(s, CTX_WARNING) ELSE s,
                        key, NoKey)

consume_newest_keycode(s0, key) ==
    LET s == switch_focus_if_complete(s0)
    IN  IF key = NoKey THEN s
        ELSE IF ~s.toggle_active THEN s
        ELSE check_key(s, key)

on_mapping_selected(s, i) ==
    LET key == s.selection_labels[i]
        sym == IF key = NoKey THEN ""
               ELSE LET e == get_symbol(s.custom_mapping, key)
                    IN  IF e = NoSymbol THEN "" ELSE e
    IN  set_focus([s EXCEPT !.active_selection_label = i, !.symbol = sym],
                  "text")

\* with add_empty called whether or not an unfinished row was found
check_add_new_key_always(s) ==
    [s EXCEPT !.selection_labels = Append(@, NoKey)]

check_add_new_key(s) ==
    IF \E i \in 1..Len(s.selection_labels) : s.selection_labels[i] = NoKey
    THEN s
    ELSE [s EXCEPT !.selection_labels = Append(@, NoKey)]

load_custom_mapping(s) ==
    LET m == s.custom_mapping
        rows == [i \in 1..Len(m) |-> m[i].key]
        s1 == check_add_new_key([s EXCEPT !.selection_labels = rows])
    IN  on_mapping_selected(s1, 1)

\* Editor.show_confirm_delete: the dialog runs and gives the user's answer
show_confirm_delete(s, accept) ==
    [s EXCEPT !.out.confirm = IF accept THEN "accept" ELSE "reject"]

\* without the dialog
on_delete_button_clicked_at_once(s, accept) ==
    LET key == get_key(s)
        s1 == IF key # NoKey
              THEN [s EXCEPT !.custom_mapping = clear(@, key),
                             !.unsaved_changes =
                                 @ \/ has_key(s.custom_mapping, key)]
              ELSE s
    IN  load_custom_mapping([s1 EXCEPT !.symbol = ""])

on_delete_button_clicked(s0, accept) ==
    LET s == IF s0.symbol # "" THEN show_confirm_delete(s0, accept) ELSE s0
    IN  IF s.out.confirm = "reject" THEN s
        ELSE LET key == get_key(s)
                 s1 == IF key # NoKey
                       THEN [s EXCEPT !.custom_mapping = clear(@, key),
                                      !.unsaved_changes =
                                          @ \/ has_key(s.custom_mapping, key)]
                       ELSE s
             IN  load_custom_mapping([s1 EXCEPT !.symbol = ""])

\* ------------------------------------------------------------- the steps
InBounds(t) ==
    /\ Len(t.selection_labels) <= MaxLabels
    /\ t.idle_queue <= MaxIdle

NoSession == [key |-> NoKey, written |-> FALSE, seen |-> FALSE,
              accepted |-> FALSE, recorded |-> FALSE, nsched |-> 0]

NewSession(t) == [NoSession EXCEPT !.key = get_key(t)]

\* what the history of the session becomes when handler op has run; it is
\* kept in the state that follows the loss of the focus and dropped after it
NextSession(t, op, key) ==
    IF op = "focus_in" THEN NewSession(t)
    ELSE IF focus # "toggle" THEN NoSession
    ELSE IF op # "poll"
         THEN [session EXCEPT !.accepted = @ /\ t.toggle_active,
                              !.written = @ \/ t.custom_mapping # custom_mapping]
    ELSE LET input == key # NoKey \/ unreleased # {}
         IN  [session EXCEPT
                !.written = @ \/ t.custom_mapping # custom_mapping,
                !.seen = @ \/ input,
                !.accepted = t.toggle_active
                             /\ (t.out.accepted \/ (@ /\ unreleased # {})),
                !.recorded = @ \/ t.out.accepted,
                !.nsched = IF input THEN 0 ELSE @ + t.out.sched]

Apply(t, op, key) ==
    /\ InBounds(t)
    /\ selection_labels' = t.selection_labels
    /\ active_selection_label' = t.active_selection_label
    /\ symbol' = t.symbol
    /\ input_has_arrived' = t.input_has_arrived
    /\ toggle_active' = t.toggle_active
    /\ focus' = t.focus
    /\ idle_queue' = t.idle_queue
    /\ custom_mapping' = t.custom_mapping
    /\ unsaved_changes' = t.unsaved_changes
    /\ unreleased' = t.unreleased
    /\ last' = [op |-> op, key |-> key, out |-> t.out]
    /\ session' = NextSession(t, op, key)
    /\ UNCHANGED <<rows_vars, popover_vars>>

Init ==
    /\ selection_labels = <<>>
    /\ active_selection_label = 0
    /\ symbol = ""
    /\ input_has_arrived = FALSE
    /\ toggle_active = FALSE
    /\ focus = "none"
    /\ idle_queue = 0
    /\ custom_mapping = <<>>
    /\ unsaved_changes = FALSE
    /\ unreleased = {}
    /\ last = [op |-> "init", key |-> NoKey, out |-> NoOut]
    /\ session = NoSession
    /\ mapping_list = <<>>
    /\ window_focus = NoFocus
    /\ idle_rows = <<>>
    /\ flag_variant = NoVariant
    /\ buffer = <<>>
    /\ cursor = 0
    /\ list_box = <<>>
    /\ visible = FALSE
    /\ is_shown = FALSE
    /\ selected_row = NoRow
    /\ debounces = FALSE
    /\ timeouts = 0
    /\ sources = {}
    /\ source_id = 0

\* the injection engine reports a key going down or up
KeyDown ==
    \E held \in Keys :
        /\ unreleased \subseteq held /\ unreleased # held
        /\ unreleased' = held
        /\ UNCHANGED <<selection_labels, active_selection_label, symbol,
                       input_has_arrived, toggle_active, focus, idle_queue,
                       custom_mapping, unsaved_changes, last, session,
                   rows_vars, popover_vars>>

KeyUp ==
    \E held \in Keys \cup {NoKey} :
        /\ held \subseteq unreleased /\ unreleased # held
        /\ unreleased' = held
        /\ UNCHANGED <<selection_labels, active_selection_label, symbol,
                       input_has_arrived, toggle_active, focus, idle_queue,
                       custom_mapping, unsaved_changes, last, session,
                   rows_vars, popover_vars>>

\* the 100 ms timer of the window hands the editor what reader.read() gave
Poll ==
    \E key \in Keys \cup {NoKey} :
        /\ Apply(consume_newest_keycode(State, key), "poll", key)

\* the 100 ms timer of the editor
CheckAddNewKey ==
    /\ Apply(check_add_new_key(State), "check_add_new_key", NoKey)

\* GLib runs one idle callback: window.set_focus(text_input)
Idle ==
    /\ idle_queue > 0
    /\ Apply(set_focus([State EXCEPT !.idle_queue = @ - 1], "text"),
             "idle", NoKey)

ToggleFocusIn ==
    /\ focus # "toggle"
    /\ Apply(set_focus(State, "toggle"), "focus_in", NoKey)

ToggleFocusOut ==
    /\ focus = "toggle"
    /\ Apply(set_focus(State, "none"), "focus_out", NoKey)

ToggleClicked ==
    /\ focus = "toggle"
    /\ Apply([State EXCEPT !.toggle_active = ~@], "clicked", NoKey)

TextFocusIn ==
    /\ focus # "text"
    /\ Apply(set_focus(State, "text"), "text_focus_in", NoKey)

TextFocusOut ==
    /\ focus = "text"
    /\ Apply(set_focus(State, "none"), "text_focus_out", NoKey)

EditText ==
    /\ focus = "text"
    /\ \E t \in Texts \ {symbol} :
           Apply([State EXCEPT !.symbol = t], "edit", NoKey)

MappingSelected ==
    \E i \in 1..Len(selection_labels) :
        Apply(on_mapping_selected(State, i), "on_mapping_selected", NoKey)

DeleteClicked ==
    \E accept \in BOOLEAN :
        /\ Apply(on_delete_button_clicked(State, accept), "delete", NoKey)

LoadCustomMapping ==
    /\ Apply(load_custom_mapping(State), "load_custom_mapping", NoKey)

Next ==
    \/ KeyDown
    \/ KeyUp
    \/ Poll
    \/ CheckAddNewKey
    \/ Idle
    \/ ToggleFocusIn
    \/ ToggleFocusOut
    \/ ToggleClicked
    \/ TextFocusIn
    \/ TextFocusOut
    \/ EditText
    \/ MappingSelected
    \/ DeleteClicked
    \/ LoadCustomMapping

Spec == Init /\ [][Next]_vars

\* the user types another symbol, or a text that is no symbol at all
EditOtherText ==
    /\ focus = "text"
    /\ \E t \in OtherTexts \ {symbol} :
           Apply([State EXCEPT !.symbol = t], "edit", NoKey)

NextAnyText ==
    \/ Next
    \/ EditOtherText

SpecAnyText == Init /\ [][NextAnyText]_vars

\* the user types a text that is no symbol at all
EditUnrecognizedText ==
    /\ focus = "text" /\ symbol # Unrecognized
    /\ Apply([State EXCEPT !.symbol = Unrecognized], "edit", NoKey)

NextUnrecognized ==
    \/ Next
    \/ EditUnrecognizedText

SpecUnrecognized == Init /\ [][NextUnrecognized]_vars

\* ------------------------------------ keymapper/gui/simple_editor.py: rows
IDLE == 0
HOLDING == 1

Rows == [mapping_list |-> mapping_list,
         window_focus |-> window_focus,
         idle_rows |-> idle_rows,
         custom_mapping |-> custom_mapping,
         unsaved_changes |-> unsaved_changes,
         unreleased |-> unreleased,
         out |-> NoOut]

\* Row.is_waiting_for_input: keycode_input.is_focus()
is_waiting_for_input(s, i) ==
    s.window_focus = [row |-> i, widget |-> "keycode_input"]

refresh_state(s, i) ==
    IF ~is_waiting_for_input(s, i)
    THEN [s EXCEPT !.mapping_list[i].state = IDLE]
    ELSE LET all_keys_released == s.unreleased = {}
             s1 == IF /\ all_keys_released
                      /\ s.mapping_list[i].state = HOLDING
                      /\ s.mapping_list[i].key # NoKey
                   THEN [s EXCEPT !.idle_rows = Append(@, i),
                                  !.out.sched = @ + 1]
                   ELSE s
         IN  [s1 EXCEPT !.mapping_list[i].state =
                            IF all_keys_released THEN IDLE ELSE HOLDING]

set_key(s, i, new_key) ==
    LET previous_key == s.mapping_list[i].key
        s1 == [s EXCEPT !.mapping_list[i].state = HOLDING,
                        !.out.accepted = TRUE]
    IN  IF new_key = previous_key THEN s1
        ELSE LET s2 == [s1 EXCEPT !.mapping_list[i].key = new_key]
             IN  IF s2.mapping_list[i].symbol = "" THEN s2
                 ELSE store_change(s2, new_key, s2.mapping_list[i].symbol,
                                   previous_key)

\* SimpleEditor.consume_newest_keycode
simple_consume_newest_keycode(s, key) ==
    LET i == s.window_focus.row
    IN  IF i = 0 THEN s
        ELSE LET s1 == refresh_state(s, i)
             IN  IF key = NoKey THEN s1
                 ELSE IF ~is_waiting_for_input(s1, i) THEN s1
                 ELSE set_key(s1, i, key)

on_symbol_input_change(s, i) ==
    LET row == s.mapping_list[i]
    IN  IF row.symbol = "" THEN s
        ELSE IF row.key # NoKey
             THEN store_change(s, row.key, row.symbol, NoKey)
        ELSE s

on_symbol_input_unfocus(s, i) ==
    LET sym == s.mapping_list[i].symbol
        cc == correct_case(sym)
    IN  IF sym = "" THEN save_preset(s)
        ELSE IF cc = NoSymbol THEN [s EXCEPT !.out.raised = TRUE]
        ELSE IF cc # sym
             THEN save_preset(on_symbol_input_change(
                      [s EXCEPT !.mapping_list[i].symbol = cc], i))
        ELSE save_preset(s)

\* Row.on_keycode_input_unfocus, and user_interface.save_preset where
\* load_custom_mapping has connected it
on_keycode_input_unfocus(s, i) ==
    LET s1 == [s EXCEPT !.mapping_list[i].state = IDLE]
    IN  IF s.mapping_list[i].loaded THEN save_preset(s1) ELSE s1

\* a focus change in the window of the SimpleEditor
rows_set_focus(s, target) ==
    IF s.window_focus = target THEN s
    ELSE LET f == s.window_focus
             left == IF f.widget = "keycode_input"
                     THEN on_keycode_input_unfocus(s, f.row)
                     ELSE IF f.widget = "symbol_input"
                     THEN on_symbol_input_unfocus(s, f.row)
                     ELSE s
             moved == [left EXCEPT !.window_focus = target]
         IN  IF target.widget = "keycode_input" THEN reader_clear(moved)
             ELSE moved

Without(seq, i) ==
    [j \in 1..(Len(seq) - 1) |-> IF j < i THEN seq[j] ELSE seq[j + 1]]

\* SimpleEditor.on_row_removed: mapping_list.remove(row)
on_row_removed(s, i) ==
    LET s1 == IF s.window_focus.row = i THEN rows_set_focus(s, NoFocus)
              ELSE s
        kept == SelectSeq(s1.idle_rows, LAMBDA r : r # i)
    IN  [s1 EXCEPT
           !.mapping_list = Without(@, i),
           !.window_focus.row = IF @ > i THEN @ - 1 ELSE @,
           !.idle_rows = [j \in 1..Len(kept) |->
                            IF kept[j] > i THEN kept[j] - 1 ELSE kept[j]]]

row_on_delete_button_clicked(s, i) ==
    LET key == s.mapping_list[i].key
        s1 == IF key # NoKey
              THEN [s EXCEPT !.custom_mapping = clear(@, key),
                             !.unsaved_changes =
                                 @ \/ has_key(s.custom_mapping, key)]
              ELSE s
    IN  on_row_removed([s1 EXCEPT !.mapping_list[i].symbol = "",
                                  !.mapping_list[i].key = NoKey], i)

add_empty(s) ==
    [s EXCEPT !.mapping_list =
        Append(@, [key |-> NoKey, symbol |-> "", state |-> IDLE,
                   loaded |-> FALSE])]

check_add_row(s) ==
    IF \E i \in 1..Len(s.mapping_list) :
           s.mapping_list[i].key = NoKey \/ s.mapping_list[i].symbol = ""
    THEN s
    ELSE add_empty(s)

simple_load_custom_mapping(s) ==
    LET s1 == rows_set_focus(s, NoFocus)
        m == s1.custom_mapping
    IN  [s1 EXCEPT
           !.mapping_list = [i \in 1..Len(m) |->
                               [key |-> m[i].key, symbol |-> m[i].symbol,
                                state |-> IDLE, loaded |-> TRUE]],
           !.idle_rows = <<>>]

RowsInBounds(t) ==
    /\ Len(t.mapping_list) <= MaxRows
    /\ Len(t.idle_rows) <= MaxIdleRows

\* the SimpleEditor and the store become what the handler left
RowsAssign(t) ==
    /\ RowsInBounds(t)
    /\ mapping_list' = t.mapping_list
    /\ window_focus' = t.window_focus
    /\ idle_rows' = t.idle_rows
    /\ custom_mapping' = t.custom_mapping
    /\ unsaved_changes' = t.unsaved_changes
    /\ unreleased' = t.unreleased
    /\ UNCHANGED <<selection_labels, active_selection_label, symbol,
                   input_has_arrived, toggle_active, focus, idle_queue,
                   session, popover_vars>>

RowsApply(t, op, key) ==
    /\ RowsAssign(t)
    /\ last' = [op |-> op, key |-> key, out |-> t.out]
    /\ UNCHANGED flag_variant

\* the 100 ms timer of the window hands the editor what reader.read() gave
RowPoll ==
    \E key \in Keys \cup {NoKey} :
        /\ RowsApply(simple_consume_newest_keycode(Rows, key), "poll", key)

\* the 100 ms timer of the SimpleEditor
CheckAddRow ==
    /\ RowsApply(check_add_row(Rows), "check_add_row", NoKey)

\* GLib runs one idle callback: window.set_focus(row.symbol_input)
RowIdle ==
    /\ idle_rows # <<>>
    /\ RowsApply(rows_set_focus([Rows EXCEPT !.idle_rows = Tail(@)],
                                [row |-> Head(idle_rows),
                                 widget |-> "symbol_input"]),
                 "idle", NoKey)

\* the user moves the focus to a widget of a row, or out of the rows
RowFocus ==
    \E to \in {NoFocus} \cup
            [row : 1..Len(mapping_list),
             widget : {"keycode_input", "symbol_input"}] :
        /\ to # window_focus
        /\ RowsApply(rows_set_focus(Rows, to), "focus", NoKey)

\* the user types into the focused symbol_input
RowEditText ==
    /\ window_focus.widget = "symbol_input"
    /\ \E t \in Texts \ {mapping_list[window_focus.row].symbol} :
           RowsApply(on_symbol_input_change(
                         [Rows EXCEPT
                            !.mapping_list[window_focus.row].symbol = t],
                         window_focus.row),
                     "edit", NoKey)

RowDeleteClicked ==
    \E i \in 1..Len(mapping_list) :
        RowsApply(row_on_delete_button_clicked(Rows, i), "delete", NoKey)

RowsLoadCustomMapping ==
    /\ RowsApply(simple_load_custom_mapping(Rows), "load_custom_mapping",
                 NoKey)

NextRows ==
    \/ KeyDown
    \/ KeyUp
    \/ RowPoll
    \/ CheckAddRow
    \/ RowIdle
    \/ RowFocus
    \/ RowEditText
    \/ RowDeleteClicked
    \/ RowsLoadCustomMapping

SpecRows == Init /\ [][NextRows]_vars

\* ------------------- keymapper/gui/single_editable_mapping.py: the flag
\* The recorder that keeps input_has_arrived, next to the row of the
\* SimpleEditor that keeps IDLE and HOLDING; both get the same focus changes,
\* polls and texts, and the recording button is active exactly while it
\* has the focus.
Single == [flag_variant EXCEPT !.out = NoOut]

set_idle(b) == [b EXCEPT !.input_has_arrived = FALSE]

\* AdvancedEditor.on_key_recording_button_unfocus: the button is set
\* inactive, the flag is left as it is
on_key_recording_button_unfocus(b) == b

\* lines 112-140; waiting is is_waiting_for_input(), held the reader's
\* unreleased keys
single_switch_focus_if_complete(b, waiting, held) ==
    IF ~waiting THEN set_idle(b)
    ELSE LET all_keys_released == held = {}
             b1 == IF all_keys_released /\ b.input_has_arrived
                      /\ b.key # NoKey
                   THEN [b EXCEPT !.idle_queue = @ + 1, !.out.sched = @ + 1]
                   ELSE b
         IN  IF ~all_keys_released
             THEN [b1 EXCEPT !.input_has_arrived = TRUE]
             ELSE set_idle(b1)

\* lines 142-174
single_set_key(b, new_key) ==
    LET previous_key == b.key
        b1 == [b EXCEPT !.input_has_arrived = TRUE, !.out.accepted = TRUE]
    IN  IF new_key = NoKey THEN b
        ELSE IF new_key = previous_key THEN b1
        ELSE LET b2 == [b1 EXCEPT !.key = new_key]
             IN  IF b2.symbol = "" THEN b2
                 ELSE store_change(b2, new_key, b2.symbol, previous_key)

\* AdvancedEditor.consume_newest_keycode
single_consume_newest_keycode(b0, key, waiting, held) ==
    LET b == single_switch_focus_if_complete(b0, waiting, held)
    IN  IF key = NoKey THEN b
        ELSE IF ~waiting THEN b
        ELSE single_set_key(b, key)

\* lines 176-187
on_text_input_change(b) ==
    IF b.symbol = "" THEN b
    ELSE IF b.key # NoKey THEN store_change(b, b.key, b.symbol, NoKey)
    ELSE b

\* lines 194-200
on_text_input_unfocus(b) ==
    LET cc == correct_case(b.symbol)
    IN  IF b.symbol = "" THEN save_preset(b)
        ELSE IF cc = NoSymbol THEN [b EXCEPT !.out.raised = TRUE]
        ELSE IF cc # b.symbol
             THEN save_preset(on_text_input_change([b EXCEPT !.symbol = cc]))
        ELSE save_preset(b)

\* the focus of the window goes from widget f to another one
single_set_focus(b, f) ==
    IF f = "keycode_input" THEN on_key_recording_button_unfocus(b)
    ELSE IF f = "symbol_input" THEN on_text_input_unfocus(b)
    ELSE b

VariantsApply(t, b, op, key) ==
    /\ RowsAssign(t)
    /\ b.idle_queue <= MaxIdleRows
    /\ flag_variant' = b
    /\ last' = [op |-> op, key |-> key, out |-> t.out, single |-> b.out]

\* one row, nothing recorded
VariantsInit ==
    /\ selection_labels = <<>>
    /\ active_selection_label = 0
    /\ symbol = ""
    /\ input_has_arrived = FALSE
    /\ toggle_active = FALSE
    /\ focus = "none"
    /\ idle_queue = 0
    /\ custom_mapping = <<>>
    /\ unsaved_changes = FALSE
    /\ unreleased = {}
    /\ session = NoSession
    /\ mapping_list = <<[key |-> NoKey, symbol |-> "", state |-> IDLE,
                         loaded |-> FALSE]>>
    /\ window_focus = NoFocus
    /\ idle_rows = <<>>
    /\ flag_variant = NoVariant
    /\ buffer = <<>>
    /\ cursor = 0
    /\ list_box = <<>>
    /\ visible = FALSE
    /\ is_shown = FALSE
    /\ selected_row = NoRow
    /\ debounces = FALSE
    /\ timeouts = 0
    /\ sources = {}
    /\ source_id = 0
    /\ last = [op |-> "init", key |-> NoKey, out |-> NoOut, single |-> NoOut]

\* the 100 ms timer hands both recorders what reader.read() gave
VariantsPoll ==
    \E key \in Keys \cup {NoKey} :
        /\ VariantsApply(simple_consume_newest_keycode(Rows, key),
                         single_consume_newest_keycode(
                             Single, key, is_waiting_for_input(Rows, 1),
                             unreleased),
                         "poll", key)

\* the user moves the focus to a widget of the row, or away
VariantsFocus ==
    \E to \in {NoFocus} \cup
            [row : {1}, widget : {"keycode_input", "symbol_input"}] :
        /\ to # window_focus
        /\ VariantsApply(rows_set_focus(Rows, to),
                         single_set_focus(Single, window_focus.widget),
                         "focus", NoKey)

\* GLib runs a scheduled window.set_focus(text input)
VariantsIdle ==
    /\ idle_rows # <<>> \/ flag_variant.idle_queue > 0
    /\ LET to == [row |-> 1, widget |-> "symbol_input"]
           t == [Rows EXCEPT !.idle_rows = IF @ = <<>> THEN @ ELSE Tail(@)]
           b == [Single EXCEPT !.idle_queue = IF @ = 0 THEN 0 ELSE @ - 1]
       IN  VariantsApply(rows_set_focus(t, to),
                         IF window_focus = to THEN b
                         ELSE single_set_focus(b, window_focus.widget),
                         "idle", NoKey)

\* the user types into the text input
VariantsEditText ==
    /\ window_focus.widget = "symbol_input"
    /\ \E t \in Texts \ {mapping_list[1].symbol} :
           VariantsApply(on_symbol_input_change(
                             [Rows EXCEPT !.mapping_list[1].symbol = t], 1),
                         on_text_input_change([Single EXCEPT !.symbol = t]),
                         "edit", NoKey)

NextVariants ==
    \/ KeyDown
    \/ KeyUp
    \/ VariantsPoll
    \/ VariantsFocus
    \/ VariantsIdle
    \/ VariantsEditText

SpecVariants == VariantsInit /\ [][NextVariants]_vars

\* -------------------------------------------- autocompletion.py: analyzer
\* A text is a sequence of characters; None is what re.match gives when the
\* pattern does not match.
None == <<"None">>
WordChars == {"a", "b", "e", "f", "i", "k", "l", "o", "q", "r", "u", "x",
              "y", "5", "A", "B", "F", "_"}
Chars == {"f", "a", "B", "(", ")", ",", "=", ".", " "}

\* FUNCTIONS and get_macro_argument_names: function name -> parameter names
FUNCTIONS ==
    (<<"f">> :> << <<"a">>, <<"b">> >>)
    @@ (<<"f", "a">> :> << <<"b">> >>)
    @@ (<<"f", "o", "o">> :> << <<"b", "a", "r">>, <<"q", "u", "x">> >>)
    @@ (<<"k", "e", "y">> :> << <<"b", "l", "u", "b">> >>)
    @@ (<<"i", "f", "e", "q">> :> << <<"a">>, <<"b">> >>)
    @@ (<<"f", "a", "f", "a">> :> <<>>)

\* FUNCTIONS.keys(), in the order of the dictionary
FUNCTIONS_keys ==
    << <<"f">>, <<"f", "a">>, <<"f", "o", "o">>, <<"k", "e", "y">>,
       <<"i", "f", "e", "q">>, <<"f", "a", "f", "a">> >>

\* system_mapping.list_names()
list_names ==
    << <<"A", "F", "A", "F">>, <<"A", "F", "A", "F", "A">>,
       <<"f", "a", "f", "a">> >>

lower(text) ==
    [i \in 1..Len(text) |->
        CASE text[i] = "A" -> "a"
          [] text[i] = "B" -> "b"
          [] text[i] = "F" -> "f"
          [] OTHER -> text[i]]

Whitespaces == {" ", "\n"}

remove_whitespaces(text) == SelectSeq(text, LAMBDA c : c \notin Whitespaces)

get_left_text(text) == lower(remove_whitespaces(text))

\* first index of the run of word characters that ends the text,
\* Len(text) + 1 when the text does not end with a word character
RECURSIVE word_start(_, _)
word_start(text, i) ==
    IF i >= 1 /\ text[i] \in WordChars THEN word_start(text, i - 1)
    ELSE i + 1

\* the pattern without the FUNCTION_CHAIN alternative
match_without_chain(text) ==
    LET k == word_start(text, Len(text))
    IN  IF k > Len(text) THEN None
        ELSE IF k = 1 \/ text[k - 1] \in {"(", ",", "="}
             THEN SubSeq(text, k, Len(text))
        ELSE None

\* re.match(rf"(?:{FUNCTION_CHAIN}|{PARAMETER}|^)(\w+)$", text)
match_function_name(text) ==
    LET k == word_start(text, Len(text))
    IN  IF k > Len(text) THEN None
        ELSE IF \/ k = 1
                \/ text[k - 1] \in {"(", ",", "="}
                \/ k >= 3 /\ text[k - 1] = "." /\ text[k - 2] = ")"
             THEN SubSeq(text, k, Len(text))
        ELSE None

\* re.match(rf"(?:{PARAMETER}|^)(\w+)$", text)
match_parameter(text) ==
    LET k == word_start(text, Len(text))
    IN  IF k > Len(text) THEN None
        ELSE IF k = 1 \/ text[k - 1] \in {"(", ",", "="}
             THEN SubSeq(text, k, Len(text))
        ELSE None

get_incomplete_function_name(text) ==
    LET match == match_function_name(get_left_text(text))
    IN  IF match = None THEN <<>> ELSE match

get_incomplete_parameter(text) == match_parameter(get_left_text(text))

\* the loop that skips the test of brackets == 0
RECURSIVE find_last_bracket(_, _, _)
find_last_bracket(left_text, i, brackets) ==
    IF i < 2 THEN 0
    ELSE IF left_text[i] = "(" THEN i
    ELSE find_last_bracket(left_text, i - 1, brackets)

\* the loop of propose_function_parameters, with 1-based positions: the
\* position of the "(" at which it breaks, 0 when it ends without a break
RECURSIVE find_open_bracket(_, _, _)
find_open_bracket(left_text, i, brackets) ==
    IF i < 2 THEN 0
    ELSE IF left_text[i] = "(" /\ brackets = 0 THEN i
    ELSE find_open_bracket(left_text, i - 1,
             IF left_text[i] = ")" THEN brackets + 1
             ELSE IF left_text[i] = "(" THEN brackets - 1
             ELSE brackets)

\* no name counts as used
no_used_parameters(text) == {}

\* every argument counts as used, with or without "="
used_arguments(text) ==
    {SubSeq(text, a, b) : <<a, b>> \in
        {p \in (1..Len(text)) \X (1..Len(text)) :
            /\ p[1] <= p[2] /\ p[2] < Len(text)
            /\ \A j \in p[1]..p[2] : text[j] \in WordChars
            /\ text[p[2] + 1] \in {"=", ","}
            /\ (p[1] = 1 \/ text[p[1] - 1] \notin WordChars)}}

\* re.findall(r"(\w+)=", text): the runs of word characters that "=" follows
used_parameters(text) ==
    {SubSeq(text, a, b) : <<a, b>> \in
        {p \in (1..Len(text)) \X (1..Len(text)) :
            /\ p[1] <= p[2] /\ p[2] < Len(text)
            /\ \A j \in p[1]..p[2] : text[j] \in WordChars
            /\ text[p[2] + 1] = "="
            /\ (p[1] = 1 \/ text[p[1] - 1] \notin WordChars)}}

\* lines 135-157: where the loop stopped and the function name found there
enclosing_function(left_text) ==
    LET i == find_open_bracket(left_text, Len(left_text), 0)
        match == IF i = 0 THEN None
                 ELSE match_function_name(SubSeq(left_text, 1, i - 1))
    IN  [i |-> i, function_name |-> match]

\* line 160: the names in use right of where the loop stopped
parameters_in_use(left_text) ==
    LET found == enclosing_function(left_text)
    IN  IF found.i = 0 THEN {}
        ELSE used_parameters(SubSeq(left_text, found.i, Len(left_text)))

propose_function_parameters(text) ==
    LET left_text == get_left_text(text)
        found == enclosing_function(left_text)
        used == parameters_in_use(left_text)
    IN  IF found.function_name \notin DOMAIN FUNCTIONS THEN <<>>
        ELSE LET parameters == FUNCTIONS[found.function_name]
                 unused == SelectSeq(parameters, LAMBDA name : name \notin used)
             IN  [n \in 1..Len(unused) |-> Append(unused[n], "=")]

\* texts of the comments and docstrings of autocompletion.py
Examples ==
    { <<"f", "o", "o", "(", "b", "a", "r", ",", " ", "q", "u">>,
      <<"q", "u", "x", "(", ")", ".", "f", "o", "o", "(", "b", "a", "r", "=",
        "k", "e", "y", "(", ")", ",", " ", "b", "l", "u", "b", ",", " ", "5",
        ",">>,
      <<"f", "o", "o", "(", "b", "a", "r", "=", "k", "e", "y", "(", "b", "l",
        "u", "b", "=", "5", ")", ",", " ", "q">>,
      <<"f", "o", "o", "(", "b", "a", "r", "=", "5", ",", " ", "q", "u">>,
      <<"b", "a", "r", "(", ")", ".", "f", "o", "o">>,
      <<"b", "a", "r", "(", ")", "\n", ".", "f", "o", "o">>,
      <<"b", "a", "r", "(", ")", ".", "\n", "f", "o", "o">>,
      <<"a", "(", ")", " ", ".", " ", "B">> }

LeftTexts == UNION {[1..n -> Chars] : n \in 0..MaxText} \cup Examples

\* the text left of the cursor is in symbol; the editor is left alone
AnalyzerInit ==
    /\ selection_labels = <<>>
    /\ active_selection_label = 0
    /\ symbol \in LeftTexts
    /\ input_has_arrived = FALSE
    /\ toggle_active = FALSE
    /\ focus = "text"
    /\ idle_queue = 0
    /\ custom_mapping = <<>>
    /\ unsaved_changes = FALSE
    /\ unreleased = {}
    /\ last = [op |-> "init", out |-> None, found |-> None]
    /\ session = NoSession
    /\ mapping_list = <<>>
    /\ window_focus = NoFocus
    /\ idle_rows = <<>>
    /\ flag_variant = NoVariant
    /\ buffer = <<>>
    /\ cursor = 0
    /\ list_box = <<>>
    /\ visible = FALSE
    /\ is_shown = FALSE
    /\ selected_row = NoRow
    /\ debounces = FALSE
    /\ timeouts = 0
    /\ sources = {}
    /\ source_id = 0

Analyze(op, out, found) ==
    /\ last' = [op |-> op, out |-> out, found |-> found]
    /\ UNCHANGED <<selection_labels, active_selection_label, symbol,
                   input_has_arrived, toggle_active, focus, idle_queue,
                   custom_mapping, unsaved_changes, unreleased, session,
                   rows_vars, popover_vars>>

GetIncompleteFunctionName ==
    /\ Analyze("get_incomplete_function_name",
               get_incomplete_function_name(symbol), None)

GetIncompleteParameter ==
    /\ Analyze("get_incomplete_parameter", get_incomplete_parameter(symbol),
               None)

ProposeFunctionParameters ==
    /\ LET found == enclosing_function(get_left_text(symbol))
       IN  Analyze("propose_function_parameters",
                   propose_function_parameters(symbol),
                   [i |-> found.i, function_name |-> found.function_name,
                    used |-> parameters_in_use(get_left_text(symbol))])

NextAnalyzer ==
    \/ GetIncompleteFunctionName
    \/ GetIncompleteParameter
    \/ ProposeFunctionParameters

SpecAnalyzer == AnalyzerInit /\ [][NextAnalyzer]_vars

\* ------------------------------------- autocompletion.py: Autocompletion
\* no shorthand names, no deprecated functions
FUNCTION_NAMES ==
    SelectSeq(FUNCTIONS_keys,
              LAMBDA name : Len(name) > 1 /\ name # <<"i", "f", "e", "q">>)

\* part in name
contains(name, part) ==
    \E a \in 1..(Len(name) - Len(part) + 1) :
        SubSeq(name, a, a + Len(part) - 1) = part

\* ", ".join(names)
RECURSIVE join(_)
join(names) ==
    IF names = <<>> THEN <<>>
    ELSE IF Len(names) = 1 THEN names[1]
    ELSE names[1] \o <<",", " ">> \o join(Tail(names))

\* the tuples (name, display_name) of the proposals
Entry(name, display_name) == [name |-> name, display_name |-> display_name]

\* with the names compared as they are written
propose_symbols_case_sensitive(text) ==
    LET incomplete_name == get_incomplete_parameter(text)
    IN  IF incomplete_name = None \/ Len(incomplete_name) <= 2 THEN <<>>
        ELSE LET found == SelectSeq(list_names, LAMBDA name :
                     /\ contains(name, incomplete_name)
                     /\ incomplete_name # name)
             IN  [n \in 1..Len(found) |-> Entry(found[n], found[n])]

\* without the test that the name differs from what is written
propose_symbols_with_equal(text) ==
    LET incomplete_name == get_incomplete_parameter(text)
    IN  IF incomplete_name = None \/ Len(incomplete_name) <= 2 THEN <<>>
        ELSE LET found == SelectSeq(list_names, LAMBDA name :
                     contains(lower(name), lower(incomplete_name)))
             IN  [n \in 1..Len(found) |-> Entry(found[n], found[n])]

\* with the threshold of the function names
propose_symbols_short(text) ==
    LET incomplete_name == get_incomplete_parameter(text)
    IN  IF incomplete_name = None \/ Len(incomplete_name) <= 1 THEN <<>>
        ELSE LET found == SelectSeq(list_names, LAMBDA name :
                     /\ contains(lower(name), lower(incomplete_name))
                     /\ lower(incomplete_name) # lower(name))
             IN  [n \in 1..Len(found) |-> Entry(found[n], found[n])]

propose_symbols(text) ==
    LET incomplete_name == get_incomplete_parameter(text)
    IN  IF incomplete_name = None \/ Len(incomplete_name) <= 2 THEN <<>>
        ELSE LET found == SelectSeq(list_names, LAMBDA name :
                     /\ contains(lower(name), lower(incomplete_name))
                     /\ lower(incomplete_name) # lower(name))
             IN  [n \in 1..Len(found) |-> Entry(found[n], found[n])]

\* with the displayed text as the text to insert
propose_function_names_with_brackets(text) ==
    LET incomplete_name == get_incomplete_function_name(text)
    IN  IF incomplete_name = None \/ Len(incomplete_name) <= 1 THEN <<>>
        ELSE LET found == SelectSeq(FUNCTION_NAMES, LAMBDA name :
                     /\ contains(lower(name), lower(incomplete_name))
                     /\ lower(incomplete_name) # lower(name))
             IN  [n \in 1..Len(found) |->
                    Entry(found[n] \o <<"(">> \o join(FUNCTIONS[found[n]])
                              \o <<")">>,
                          found[n] \o <<"(">> \o join(FUNCTIONS[found[n]])
                              \o <<")">>)]

\* without the test of the length
propose_function_names_of_any_length(text) ==
    LET incomplete_name == get_incomplete_function_name(text)
        found == SelectSeq(FUNCTION_NAMES, LAMBDA name :
                     /\ contains(lower(name), lower(incomplete_name))
                     /\ lower(incomplete_name) # lower(name))
    IN  [n \in 1..Len(found) |->
            Entry(found[n],
                  found[n] \o <<"(">> \o join(FUNCTIONS[found[n]])
                      \o <<")">>)]

propose_function_names(text) ==
    LET incomplete_name == get_incomplete_function_name(text)
    IN  IF incomplete_name = None \/ Len(incomplete_name) <= 1 THEN <<>>
        ELSE LET found == SelectSeq(FUNCTION_NAMES, LAMBDA name :
                     /\ contains(lower(name), lower(incomplete_name))
                     /\ lower(incomplete_name) # lower(name))
             IN  [n \in 1..Len(found) |->
                    Entry(found[n],
                          found[n] \o <<"(">> \o join(FUNCTIONS[found[n]])
                              \o <<")">>)]

\* the tuples that propose_function_parameters returns
function_parameters(text) ==
    LET found == propose_function_parameters(text)
    IN  [n \in 1..Len(found) |-> Entry(found[n], found[n])]

\* with the parameters put before the symbols
suggested_names_parameters_first(text) ==
    propose_function_names(text) \o function_parameters(text)
        \o propose_symbols(text)

\* lines 349-352 of update
suggested_names(text) ==
    propose_function_names(text) \o propose_symbols(text)
        \o function_parameters(text)

\* The popover and its text input as one record.
Popover == [buffer |-> buffer, cursor |-> cursor, list_box |-> list_box,
            visible |-> visible, is_shown |-> is_shown,
            selected_row |-> selected_row, debounces |-> debounces, timeouts |-> timeouts,
            is_focus |-> focus = "text"]

\* _get_text_iter_at_cursor and the text from the start to it
left_of_cursor(p) == SubSeq(p.buffer, 1, p.cursor)

\* without the test of is_focus
update_without_focus(p) ==
    LET names == suggested_names(SubSeq(p.buffer, 1, p.cursor))
        p1 == [p EXCEPT !.list_box = <<>>, !.selected_row = NoRow]
    IN  IF Len(names) = 0
        THEN [p1 EXCEPT !.visible = FALSE, !.is_shown = FALSE]
        ELSE [p1 EXCEPT !.list_box = names, !.visible = TRUE,
                        !.is_shown = TRUE]

popdown(p) == [p EXCEPT !.visible = FALSE, !.is_shown = FALSE]

popup(p) == [p EXCEPT !.visible = TRUE, !.is_shown = TRUE]

update(p) ==
    IF ~p.is_focus THEN popdown(p)
    ELSE LET names == suggested_names(left_of_cursor(p))
             p1 == [p EXCEPT !.list_box = <<>>, !.selected_row = NoRow]
         IN  IF Len(names) = 0 THEN popdown(p1)
             ELSE [popup(p1) EXCEPT !.list_box = names]

\* the "changed" signal of the buffer sets the timer of update
changed(p) == [p EXCEPT !.debounces = TRUE]

\* number of word characters that start the text: re.match(r"^(\w+)", right)
RECURSIVE word_end(_, _)
word_end(text, i) ==
    IF i <= Len(text) /\ text[i] \in WordChars THEN word_end(text, i + 1)
    ELSE i - 1

\* Gtk.TextView.do_delete_from_cursor: n > 0 deletes right of the cursor,
\* n < 0 left of it
do_delete_from_cursor(p, n) ==
    IF n = 0 THEN p
    ELSE IF n > 0
    THEN changed([p EXCEPT !.buffer = SubSeq(@, 1, p.cursor)
                               \o SubSeq(@, p.cursor + n + 1, Len(@))])
    ELSE changed([p EXCEPT !.buffer = SubSeq(@, 1, p.cursor + n)
                               \o SubSeq(@, p.cursor + 1, Len(@)),
                           !.cursor = @ + n])

do_insert_at_cursor(p, text) ==
    IF text = <<>> THEN p
    ELSE changed([p EXCEPT !.buffer = SubSeq(@, 1, p.cursor) \o text
                               \o SubSeq(@, p.cursor + 1, Len(@)),
                           !.cursor = @ + Len(text)])

\* with the word right of the cursor left in place
on_suggestion_clicked_left_only(p, selected_proposal) ==
    LET left == left_of_cursor(p)
        p2 == do_delete_from_cursor(
                  p, 0 - (Len(left) - word_start(left, Len(left)) + 1))
    IN  do_insert_at_cursor(p2, selected_proposal)

on_suggestion_clicked(p, selected_proposal) ==
    LET right == SubSeq(p.buffer, p.cursor + 1, Len(p.buffer))
        p1 == do_delete_from_cursor(p, word_end(right, 1))
        left == left_of_cursor(p1)
        p2 == do_delete_from_cursor(
                  p1, 0 - (Len(left) - word_start(left, Len(left)) + 1))
    IN  do_insert_at_cursor(p2, selected_proposal)

\* characters the user types
BufferChars == {"f", "a", "("}

\* texts that the buffer is set to when a mapping is selected
Loaded == { <<>>, <<"i", "f">>, <<"f", "o">>, <<"a", "f", "a">>,
            <<"F", "a", " ", "f">>, <<"f", "o", "o", "(", "f", "a", "f">> }

NoEntry == Entry(None, None)

PopoverCall(op, p, selected) ==
    LET left == left_of_cursor(p)
    IN  [op |-> op,
         before |-> IF op = "on_suggestion_clicked"
                    THEN [buffer |-> buffer, cursor |-> cursor]
                    ELSE IF op = "update" /\ last.op = "on_suggestion_clicked"
                    THEN last.before
                    ELSE [buffer |-> <<>>, cursor |-> 0],
         selected |-> selected,
         functions |-> IF op = "update" /\ p.is_focus
                       THEN propose_function_names(left) ELSE <<>>,
         symbols |-> IF op = "update" /\ p.is_focus
                     THEN propose_symbols(left) ELSE <<>>,
         parameters |-> IF op = "update" /\ p.is_focus
                        THEN function_parameters(left) ELSE <<>>,
         updated |-> op = "update" /\ p.is_focus,
         inserted |-> IF op = "on_suggestion_clicked" THEN selected.name
                      ELSE IF op = "update" /\ last.op = "on_suggestion_clicked"
                      THEN last.inserted
                      ELSE None]

\* the popover and its text input become what the handler left
PopoverAssign(p) ==
    /\ Len(p.buffer) <= MaxBuffer
    /\ p.timeouts <= MaxTimeouts
    /\ buffer' = p.buffer
    /\ cursor' = p.cursor
    /\ list_box' = p.list_box
    /\ visible' = p.visible
    /\ is_shown' = p.is_shown
    /\ selected_row' = p.selected_row
    /\ debounces' = p.debounces
    /\ timeouts' = p.timeouts
    /\ focus' = IF p.is_focus THEN "text" ELSE "none"
    /\ UNCHANGED <<selection_labels, active_selection_label, symbol,
                   input_has_arrived, toggle_active, idle_queue,
                   custom_mapping, unsaved_changes, unreleased, session,
                   rows_vars, sources, source_id>>

PopoverApply(p, op, selected) ==
    /\ PopoverAssign(p)
    /\ last' = PopoverCall(op, Popover, selected)

PopoverInit ==
    /\ selection_labels = <<>>
    /\ active_selection_label = 0
    /\ symbol = ""
    /\ input_has_arrived = FALSE
    /\ toggle_active = FALSE
    /\ focus = "none"
    /\ idle_queue = 0
    /\ custom_mapping = <<>>
    /\ unsaved_changes = FALSE
    /\ unreleased = {}
    /\ session = NoSession
    /\ mapping_list = <<>>
    /\ window_focus = NoFocus
    /\ idle_rows = <<>>
    /\ flag_variant = NoVariant
    /\ buffer = <<>>
    /\ cursor = 0
    /\ list_box = <<>>
    /\ visible = FALSE
    /\ is_shown = FALSE
    /\ selected_row = NoRow
    /\ debounces = FALSE
    /\ timeouts = 0
    /\ sources = {}
    /\ source_id = 0
    /\ last = [op |-> "init",
               before |-> [buffer |-> <<>>, cursor |-> 0],
               selected |-> NoEntry, functions |-> <<>>, symbols |-> <<>>,
               parameters |-> <<>>, updated |-> FALSE, inserted |-> None]

\* the user types a character at the cursor
TypeChar ==
    \E c \in BufferChars :
        /\ Len(buffer) < MaxTyped
        /\ PopoverApply(do_insert_at_cursor(Popover, <<c>>), "text_input", NoEntry)

\* the user deletes the character left of the cursor
Backspace ==
    /\ cursor > 0 /\ Len(buffer) <= MaxTyped
    /\ PopoverApply(do_delete_from_cursor(Popover, 0 - 1), "text_input",
                    NoEntry)

\* the user moves the cursor
MoveCursor ==
    \E c \in 0..Len(buffer) :
        /\ c # cursor
        /\ PopoverApply([Popover EXCEPT !.cursor = c], "text_input", NoEntry)

\* a mapping is selected and its text put into the buffer
SetText ==
    \E text \in Loaded :
        /\ text # buffer
        /\ PopoverApply(changed([Popover EXCEPT !.buffer = text,
                                                !.cursor = Len(text)]),
                        "text_input", NoEntry)

\* the timer of debounce runs out
Update ==
    /\ debounces
    /\ PopoverApply(update([Popover EXCEPT !.debounces = FALSE]), "update",
                    NoEntry)

\* a button of the popover is clicked, or Return is pressed on its row, once
\* the entries are those of the present text
SuggestionClicked ==
    \E n \in 1..Len(list_box) :
        /\ visible /\ ~debounces
        /\ PopoverApply(on_suggestion_clicked(Popover, list_box[n].name),
                        "on_suggestion_clicked", list_box[n])

\* navigate: Escape is pressed while the popover is shown
Escape ==
    /\ visible /\ focus = "text"
    /\ PopoverApply(popdown(Popover), "navigate", NoEntry)

InputFocus ==
    /\ focus # "text"
    /\ PopoverApply([Popover EXCEPT !.is_focus = TRUE], "focus", NoEntry)

\* on_text_input_unfocus: popdown is set to run after 100 ms
InputUnfocus ==
    /\ focus = "text"
    /\ PopoverApply([Popover EXCEPT !.is_focus = FALSE, !.timeouts = @ + 1],
                    "on_text_input_unfocus", NoEntry)

\* the timer of on_text_input_unfocus runs out
PopdownTimeout ==
    /\ timeouts > 0
    /\ PopoverApply(popdown([Popover EXCEPT !.timeouts = @ - 1]), "popdown",
                    NoEntry)

NextPopover ==
    \/ TypeChar
    \/ Backspace
    \/ MoveCursor
    \/ SetText
    \/ Update
    \/ SuggestionClicked
    \/ Escape
    \/ InputFocus
    \/ InputUnfocus
    \/ PopdownTimeout

SpecPopover == PopoverInit /\ [][NextPopover]_vars

\* the main loop runs the timer of on_text_input_unfocus
FairSpecPopover == SpecPopover /\ WF_vars(PopdownTimeout)

\* the popover with the operations that show or hide it, and those that
\* fill the text
NextShown ==
    \/ SetText
    \/ TypeChar
    \/ Update
    \/ SuggestionClicked
    \/ Escape
    \/ InputFocus
    \/ InputUnfocus
    \/ PopdownTimeout

FairSpecShown ==
    PopoverInit /\ [][NextShown]_vars /\ WF_vars(PopdownTimeout)

\* ------------------------------ autocompletion.py: Autocompletion.navigate
\* event.keyval; KEY_Left stands for the keys that do not control the popover
KEY_Escape == "Escape"
KEY_Down == "Down"
KEY_Up == "Up"
KEY_Return == "Return"
KEY_Left == "Left"
Keyvals == {KEY_Escape, KEY_Down, KEY_Up, KEY_Return, KEY_Left}

\* Gdk.EVENT_STOP is True; a handler that returns None lets the event go on
\* to the text input
EVENT_STOP == TRUE
EVENT_PROPAGATE == FALSE

get_row_at_index(p, index) ==
    IF 0 <= index /\ index < Len(p.list_box) THEN index ELSE NoRow

select_row(p, row) == [p EXCEPT !.selected_row = row]

\* with Down on the last row going to the first row and Up on the first row
\* to the last
navigate_around(p, keyval) ==
    IF ~p.visible THEN [p |-> p, ret |-> EVENT_PROPAGATE]
    ELSE IF keyval = KEY_Escape
    THEN [p |-> popdown(p), ret |-> EVENT_PROPAGATE]
    ELSE IF keyval \notin {KEY_Down, KEY_Up, KEY_Return}
    THEN [p |-> select_row(p, NoRow), ret |-> EVENT_PROPAGATE]
    ELSE IF keyval = KEY_Return
    THEN IF p.selected_row = NoRow THEN [p |-> p, ret |-> EVENT_PROPAGATE]
         ELSE [p |-> on_suggestion_clicked(
                         p, p.list_box[p.selected_row + 1].name),
               ret |-> EVENT_STOP]
    ELSE LET new_index == IF keyval = KEY_Down THEN p.selected_row + 1
                          ELSE p.selected_row - 1
             new_selected_row ==
                 IF p.selected_row = NoRow THEN get_row_at_index(p, 0)
                 ELSE new_index % Len(p.list_box)
         IN  [p |-> select_row(p, new_selected_row), ret |-> EVENT_STOP]

\* lines 269-314; p is the popover after the call, ret what navigate returns
navigate(p, keyval) ==
    IF ~p.visible THEN [p |-> p, ret |-> EVENT_PROPAGATE]
    ELSE IF keyval = KEY_Escape
    THEN [p |-> popdown(p), ret |-> EVENT_PROPAGATE]
    ELSE IF keyval \notin {KEY_Down, KEY_Up, KEY_Return}
    THEN [p |-> select_row(p, NoRow), ret |-> EVENT_PROPAGATE]
    ELSE IF keyval = KEY_Return
    THEN IF p.selected_row = NoRow THEN [p |-> p, ret |-> EVENT_PROPAGATE]
         ELSE [p |-> on_suggestion_clicked(
                         p, p.list_box[p.selected_row + 1].name),
               ret |-> EVENT_STOP]
    ELSE LET new_index == IF keyval = KEY_Down THEN p.selected_row + 1
                          ELSE p.selected_row - 1
             new_selected_row ==
                 IF p.selected_row = NoRow THEN get_row_at_index(p, 0)
                 ELSE get_row_at_index(p, new_index)
         IN  [p |-> select_row(p, new_selected_row), ret |-> EVENT_STOP]

\* "key-press-event" of the text input, which it gets while it has the focus
Navigate ==
    \E keyval \in Keyvals :
        /\ focus = "text"
        /\ PopoverAssign(navigate(Popover, keyval).p)
        /\ last' = [op |-> "navigate", keyval |-> keyval,
                    ret |-> navigate(Popover, keyval).ret,
                    before |-> Popover]

NextNavigate ==
    \/ SetText
    \/ TypeChar
    \/ Update
    \/ Navigate
    \/ InputFocus
    \/ InputUnfocus
    \/ PopdownTimeout

SpecNavigate == PopoverInit /\ [][NextNavigate]_vars

\* ------------------------------------------- autocompletion.py: debounce
\* GLib gives its sources the ids 1, 2, ...; 0 stands for the None of
\* debounces.get(func.__name__).
NoSource == 0

\* what a call of the debounced function is given
DebounceArgs == {"a", "b", "c"}
NoArgs == "none"

\* what one handler did: the id given to source_remove, whether that source
\* was still attached, and the arguments func was called with
NoDone == [removed |-> NoSource, attached |-> TRUE, invoked |-> NoArgs]

\* debounces[func.__name__] and the sources of the main loop as one record
Debounce == [debounces |-> debounces, sources |-> sources,
             source_id |-> source_id, done |-> NoDone]

\* GLib.timeout_add: a new source that is not yet due; its id is source_id
timeout_add(d, args) ==
    [d EXCEPT !.source_id = @ + 1,
              !.sources = @ \cup {[id |-> d.source_id + 1, args |-> args,
                                   due |-> FALSE]}]

\* GLib.source_remove
source_remove(d, id) ==
    [d EXCEPT !.sources = {s \in @ : s.id # id},
              !.done.removed = id,
              !.done.attached = \E s \in d.sources : s.id = id]

\* lines 183-185: the entry is cleared, then func runs
clear_debounce(d, args) ==
    [d EXCEPT !.debounces = NoSource, !.done.invoked = args]

\* without GLib.source_remove for the pending timer
wrapped_without_remove(d, args) ==
    LET d2 == timeout_add(d, args)
    IN  [d2 EXCEPT !.debounces = d2.source_id]

\* with the entry left as it is when func runs
dispatch_keeps_entry(d, s) ==
    [d EXCEPT !.done.invoked = s.args, !.sources = @ \ {s}]

\* lines 187-193
wrapped(d, args) ==
    LET d1 == IF d.debounces # NoSource THEN source_remove(d, d.debounces)
              ELSE d
        d2 == timeout_add(d1, args)
    IN  [d2 EXCEPT !.debounces = d2.source_id]

\* the main loop runs the lambda of source s; update returns None, which
\* makes GLib destroy the source
dispatch(d, s) ==
    [clear_debounce(d, s.args) EXCEPT !.sources = @ \ {s}]

\* history of the calls: the calls of the present burst (a burst ends when
\* func runs), the arguments of the newest call, and how often func ran
\* since the newest call
NoCalls == [calls |-> 0, args |-> NoArgs, invoked |-> 0]

DebounceApply(d, op, args) ==
    /\ d.source_id <= MaxCalls
    /\ debounces' = d.debounces
    /\ sources' = d.sources
    /\ source_id' = d.source_id
    /\ last' = [op |-> op, args |-> args, done |-> d.done]
    /\ session' = IF op = "wrapped"
                  THEN [calls |-> IF session.invoked > 0 THEN 1
                                  ELSE session.calls + 1,
                        args |-> args, invoked |-> 0]
                  ELSE IF op = "dispatch"
                  THEN [session EXCEPT !.invoked = @ + 1]
                  ELSE session
    /\ UNCHANGED <<selection_labels, active_selection_label, symbol,
                   input_has_arrived, toggle_active, focus, idle_queue,
                   custom_mapping, unsaved_changes, unreleased, rows_vars,
                   buffer, cursor, list_box, visible, is_shown, selected_row,
                   timeouts>>

DebounceInit ==
    /\ selection_labels = <<>>
    /\ active_selection_label = 0
    /\ symbol = ""
    /\ input_has_arrived = FALSE
    /\ toggle_active = FALSE
    /\ focus = "none"
    /\ idle_queue = 0
    /\ custom_mapping = <<>>
    /\ unsaved_changes = FALSE
    /\ unreleased = {}
    /\ mapping_list = <<>>
    /\ window_focus = NoFocus
    /\ idle_rows = <<>>
    /\ flag_variant = NoVariant
    /\ buffer = <<>>
    /\ cursor = 0
    /\ list_box = <<>>
    /\ visible = FALSE
    /\ is_shown = FALSE
    /\ selected_row = NoRow
    /\ timeouts = 0
    /\ debounces = NoSource
    /\ sources = {}
    /\ source_id = 0
    /\ last = [op |-> "init", args |-> NoArgs, done |-> NoDone]
    /\ session = NoCalls

\* the buffer emits "changed": the debounced update is called
Wrapped ==
    \E args \in DebounceArgs :
        DebounceApply(wrapped(Debounce, args), "wrapped", args)

\* 100 ms pass for the oldest source that is not yet due
Timeout ==
    \E s \in sources :
        /\ ~s.due
        /\ \A o \in sources : o.id < s.id => o.due
        /\ DebounceApply([Debounce EXCEPT
                             !.sources = (@ \ {s})
                                 \cup {[s EXCEPT !.due = TRUE]}],
                         "timeout", NoArgs)

\* the main loop runs a source that is due
Dispatch ==
    \E s \in sources :
        /\ s.due
        /\ DebounceApply(dispatch(Debounce, s), "dispatch", s.args)

NextDebounce ==
    \/ Wrapped
    \/ Timeout
    \/ Dispatch

SpecDebounce == DebounceInit /\ [][NextDebounce]_vars

\* the main loop lets the time pass and runs every source that is due
FairSpecDebounce ==
    SpecDebounce /\ WF_vars(Timeout) /\ WF_vars(Dispatch)

\* ------------------------------------------------- the store on its own
StoreKeys == Keys \cup {{"shift"}}
StoreSymbols == {"a", "b"}

StoreCall(op, key, sym, previous_key, raised) ==
    [op |-> op, key |-> key, symbol |-> sym, previous_key |-> previous_key,
     before |-> <<>>, out |-> [NoOut EXCEPT !.raised = raised]]

StoreStep(m, call) ==
    /\ custom_mapping' = m
    /\ unsaved_changes' = (unsaved_changes \/ m # custom_mapping)
    /\ last' = [call EXCEPT !.before = custom_mapping]
    /\ UNCHANGED <<selection_labels, active_selection_label, symbol,
                   input_has_arrived, toggle_active, focus, idle_queue,
                   unreleased, session,
                   rows_vars, popover_vars>>

StoreChange ==
    \E new_key \in StoreKeys, sym \in StoreSymbols,
       previous_key \in StoreKeys \cup {NoKey} :
        StoreStep(change(custom_mapping, new_key, sym, previous_key),
                  StoreCall("change", new_key, sym, previous_key,
                            conflict(custom_mapping, new_key, sym,
                                     previous_key)))

StoreClear ==
    \E key \in StoreKeys :
        StoreStep(clear(custom_mapping, key),
                  StoreCall("clear", key, NoSymbol, NoKey, FALSE))

StoreEmpty ==
    /\ StoreStep(empty(custom_mapping),
                 StoreCall("empty", NoKey, NoSymbol, NoKey, FALSE))

StoreMarkSaved ==
    /\ unsaved_changes
    /\ unsaved_changes' = FALSE
    /\ last' = StoreCall("mark_saved", NoKey, NoSymbol, NoKey, FALSE)
    /\ UNCHANGED <<selection_labels, active_selection_label, symbol,
                   input_has_arrived, toggle_active, focus, idle_queue,
                   custom_mapping, unreleased, session,
                   rows_vars, popover_vars>>

NextStore ==
    \/ StoreChange
    \/ StoreClear
    \/ StoreEmpty
    \/ StoreMarkSaved

SpecStore == Init /\ [][NextStore]_vars

TypeOK ==
    /\ active_selection_label \in 0..Len(selection_labels)
    /\ symbol \in Texts \cup OtherTexts
    /\ focus \in {"none", "toggle", "text"}
    /\ toggle_active => focus = "toggle"

GetKey == get_key(State)

Pending(i) ==
    /\ selection_labels[i] # NoKey
    /\ ~has_key(custom_mapping, selection_labels[i])

\* ------------------------------------------------------------- the claims

\* C1: in a recording session, once a key has been accepted and the slot
\* holds a combination, the first poll with no unreleased keys schedules
\* exactly one focus switch, and further polls with no held keys and no new
\* input schedule no other one.
RecordingCompleteOnce ==
    [][Poll =>
         /\ (session.accepted /\ GetKey # NoKey /\ unreleased = {}
                => idle_queue' = idle_queue + 1)
         /\ session'.nsched <= 1]_vars

RecordingCompleteOnceReached ==
    /\ last.op = "poll" /\ last.key = NoKey /\ last.out.sched = 0
    /\ toggle_active /\ unreleased = {} /\ GetKey # NoKey
    /\ session.nsched = 1

\* C2: the poll that detects the release only enqueues the focus switch: when
\* it returns the toggle still has the focus and is still active; the text
\* input gets the focus when the idle callback runs.
FocusSwitchDeferred ==
    [][/\ Poll =>
            /\ focus' = focus /\ toggle_active' = toggle_active
            /\ (last'.out.sched > 0 =>
                   focus' = "toggle" /\ idle_queue' = idle_queue + 1)
       /\ Idle => focus' = "text" /\ idle_queue' = idle_queue - 1]_vars

FocusSwitchDeferredReached ==
    /\ last.op = "poll" /\ last.out.sched = 1
    /\ focus = "toggle" /\ idle_queue > 0

\* C3: while the toggle is not active, a poll with any key leaves the slots,
\* the store and the status alone, schedules nothing and leaves
\* input_has_arrived false.
InactiveToggleConsumesNothing ==
    [][Poll /\ ~toggle_active =>
         /\ UNCHANGED <<selection_labels, active_selection_label,
                        custom_mapping, unsaved_changes, idle_queue>>
         /\ last'.out.msg = NoMsg
         /\ ~input_has_arrived']_vars

InactiveToggleConsumesNothingReached ==
    /\ last.op = "poll" /\ last.key # NoKey
    /\ ~toggle_active /\ focus = "toggle"

\* C4 as stated: when the toggle loses the focus, the slot shows the
\* combination it had before the session and the session wrote no entry.
FocusLostDiscardsCombination ==
    last.op = "focus_out" => GetKey = session.key /\ ~session.written

\* C4 as amended: when the toggle loses the focus, the toggle is deactivated
\* and input_has_arrived is false; the focus change itself leaves the slots
\* and the store as they are.
FocusLostKeepsCombination ==
    [][focus = "toggle" /\ focus' # "toggle" =>
         /\ ~toggle_active' /\ ~input_has_arrived'
         /\ (ToggleFocusOut \/ Idle \/ TextFocusIn =>
                UNCHANGED <<selection_labels, active_selection_label,
                            custom_mapping>>)]_vars

FocusLostKeepsCombinationReached ==
    /\ last.op = "focus_out" /\ ~toggle_active
    /\ GetKey # session.key /\ session.written
    /\ has_key(custom_mapping, GetKey)

\* C5: a poll of the active toggle with a combination the store already maps
\* shows the duplicate message and changes neither a slot nor the store.
DuplicateIsNotCommitted ==
    [][Poll /\ toggle_active /\ has_key(custom_mapping, last'.key) =>
         /\ last'.out.msg = CTX_KEYCODE
         /\ UNCHANGED <<selection_labels, active_selection_label,
                        custom_mapping, unsaved_changes>>]_vars

DuplicateIsNotCommittedReached ==
    /\ last.op = "poll" /\ last.out.msg = CTX_KEYCODE
    /\ has_key(custom_mapping, last.key) /\ GetKey # last.key

\* C6: a poll with the combination the recording slot itself already maps
\* shows no duplicate message.
OwnCombinationIsNoDuplicate ==
    ~(/\ last.op = "poll" /\ last.key # NoKey /\ last.key = GetKey
      /\ last.out.msg = CTX_KEYCODE)

\* C7: no two slots hold the same combination, committed or pending.
SlotsHoldDistinctCombinations ==
    \A i, j \in 1..Len(selection_labels) :
        i # j /\ selection_labels[i] # NoKey
            => selection_labels[i] # selection_labels[j]

\* C8: when a poll accepts a new combination for the active slot, the slot
\* shows it; with text, the store maps it to the text and no longer holds
\* the previous combination of the slot; without text the store is not
\* written.
AcceptedCombinationIsCommitted ==
    [][Poll /\ last'.out.accepted /\ active_selection_label # 0
            /\ last'.key # GetKey =>
         /\ GetKey' = last'.key
         /\ IF symbol # ""
            THEN /\ last'.out.changed
                 /\ get_symbol(custom_mapping', last'.key) = symbol
                 /\ GetKey # NoKey => ~has_key(custom_mapping', GetKey)
            ELSE /\ ~last'.out.changed
                 /\ custom_mapping' = custom_mapping]_vars

AcceptedCombinationIsCommittedReached ==
    /\ last.op = "poll" /\ last.out.accepted /\ last.out.changed
    /\ GetKey = last.key /\ get_symbol(custom_mapping, GetKey) = symbol
    /\ session.key # NoKey /\ session.key # GetKey
    /\ ~has_key(custom_mapping, session.key)

\* C9: a pending slot other than the active one keeps being displayed with
\* its combination after every step.
PendingSlotStaysDisplayed ==
    [][\A i \in 1..Len(selection_labels) :
          Pending(i) /\ i # active_selection_label =>
              \E j \in 1..Len(selection_labels') :
                  selection_labels'[j] = selection_labels[i]]_vars

\* C10: a focus switch is scheduled only by a poll at which the toggle is
\* active, no key is unreleased, input has arrived in the session and the
\* slot holds a combination.
FocusSwitchOnlyWhenComplete ==
    [][idle_queue' > idle_queue =>
         /\ Poll
         /\ toggle_active /\ unreleased = {}
         /\ input_has_arrived /\ session.seen
         /\ GetKey # NoKey]_vars

FocusSwitchOnlyWhenCompleteReached ==
    /\ last.op = "poll" /\ last.out.sched = 1
    /\ toggle_active /\ unreleased = {} /\ session.seen /\ GetKey # NoKey
ProblematicIsWarnedAndProcessed ==
    [][Poll /\ toggle_active /\ is_problematic(last'.key)
            /\ ~has_key(custom_mapping, last'.key) =>
         /\ last'.out.msg = CTX_WARNING
         /\ last'.out.accepted /\ input_has_arrived'
         /\ (active_selection_label # 0 =>
                /\ GetKey' = last'.key
                /\ IF symbol # "" /\ GetKey # last'.key
                   THEN get_symbol(custom_mapping', last'.key) = symbol
                   ELSE custom_mapping' = custom_mapping)]_vars

ProblematicIsWarnedAndProcessedReached ==
    /\ last.op = "poll" /\ last.out.msg = CTX_WARNING /\ last.out.changed
    /\ is_problematic(GetKey) /\ GetKey = last.key
    /\ symbol # "" /\ get_symbol(custom_mapping, GetKey) = symbol

\* C13: the toggle gaining the focus leaves input_has_arrived false and the
\* reader without unreleased keys; as long as no poll of the session has seen
\* an event or an unreleased key, no poll schedules a focus switch.
FocusGainedStartsClean ==
    [][/\ ToggleFocusIn => ~input_has_arrived' /\ unreleased' = {}
       /\ Poll /\ focus = "toggle" /\ ~session.seen
               /\ last'.key = NoKey /\ unreleased = {}
            => last'.out.sched = 0 /\ idle_queue' = idle_queue]_vars

FocusGainedStartsCleanReached ==
    /\ last.op = "poll" /\ last.key = NoKey /\ last.out.sched = 0
    /\ focus = "toggle" /\ toggle_active /\ ~session.seen
    /\ unreleased = {} /\ GetKey # NoKey
\* C14: a poll in the SimpleEditor leaves every row but the focused one as
\* it was (state, combination and text), and where the store maps the
\* combination of such a row to the text of the row, it still does.
PollTouchesFocusedRowOnly ==
    [][RowPoll =>
         /\ Len(mapping_list') = Len(mapping_list)
         /\ \A j \in 1..Len(mapping_list) :
               j # window_focus.row =>
                 /\ mapping_list'[j] = mapping_list[j]
                 /\ (/\ mapping_list[j].symbol # ""
                     /\ get_symbol(custom_mapping, mapping_list[j].key)
                           = mapping_list[j].symbol
                     => get_symbol(custom_mapping', mapping_list[j].key)
                           = mapping_list[j].symbol)]_vars

\* C15: when the text input has lost the focus, the store has no unsaved
\* changes.
BlurLeavesStoreSaved ==
    last.op = "text_focus_out" => ~unsaved_changes
\* C16: when the text input loses the focus with a non-empty text that
\* correct_case does not know, the store, the slots and the text are left
\* as they were.
UnrecognizedTextIsNotWritten ==
    [][/\ focus = "text" /\ focus' # "text"
       /\ symbol # "" /\ correct_case(symbol) = NoSymbol
       => /\ UNCHANGED <<custom_mapping, selection_labels,
                         active_selection_label, symbol>>
          /\ last'.out.raised /\ ~last'.out.changed]_vars

UnrecognizedTextIsNotWrittenReached ==
    /\ last.op = "text_focus_out" /\ last.out.raised
    /\ symbol = Unrecognized
    /\ GetKey # NoKey /\ ~has_key(custom_mapping, GetKey)
\* C17: change(B, y, previous_key = A) with A # B and B not in the store
\* removes the entry of A, adds B -> y and leaves every other entry as it
\* was; after change(A, x) on the empty store it leaves exactly B -> y.
ChangeMovesEntry ==
    [][/\ StoreChange /\ last'.previous_key \notin {NoKey, last'.key}
           /\ ~has_key(custom_mapping, last'.key)
         => /\ ~last'.out.raised
            /\ ~has_key(custom_mapping', last'.previous_key)
            /\ get_symbol(custom_mapping', last'.key) = last'.symbol
            /\ SelectSeq(custom_mapping', LAMBDA e :
                    e.key \notin {last'.key, last'.previous_key})
               = SelectSeq(custom_mapping, LAMBDA e :
                    e.key \notin {last'.key, last'.previous_key})
            /\ Len(custom_mapping') = Len(custom_mapping)
                   + (IF has_key(custom_mapping, last'.previous_key)
                      THEN 0 ELSE 1)
       /\ \A A, B \in StoreKeys, x, y \in StoreSymbols :
             A # B => change(change(<<>>, A, x, NoKey), B, y, A)
                        = <<[key |-> B, symbol |-> y]>>]_vars

ChangeMovesEntryReached ==
    /\ last.op = "change" /\ last.previous_key \notin {NoKey, last.key}
    /\ ~last.out.raised /\ unsaved_changes
    /\ Len(last.before) = 2
    /\ has_key(last.before, last.previous_key)
    /\ ~has_key(last.before, last.key)
    /\ Len(custom_mapping) = 2
    /\ get_symbol(custom_mapping, last.key) = last.symbol

\* C18: a step that replaces the symbol of an entry of the store is not made
\* while a slot other than the active one holds the combination of that
\* entry.
OwnedEntryIsNotOverwritten ==
    [][\A k \in Keys :
          /\ has_key(custom_mapping, k) /\ has_key(custom_mapping', k)
          /\ get_symbol(custom_mapping', k) # get_symbol(custom_mapping, k)
          => ~\E j \in 1..Len(selection_labels) :
                 j # active_selection_label /\ selection_labels[j] = k]_vars
\* C19: for the text foo(bar, qu the incomplete parameter is qu and the
\* enclosing function is foo; in general a function name found by
\* propose_function_parameters is the identifier directly left of the
\* innermost "(" that no ")" right of it closes, and that identifier is found
\* whenever it starts the text or follows "(", "," or "=" or ")." (for
\* qux().foo(bar=key(), blub, 5, it is foo).
EnclosingFunctionIsInnermostOpen ==
    LET t == get_left_text(symbol)
        Num(c, a, b) == Cardinality({j \in a..b : t[j] = c})
        Unmatched(p) ==
            /\ t[p] = "("
            /\ \A m \in (p + 1)..Len(t) :
                   Num(")", p + 1, m) <= Num("(", p + 1, m)
        Open == {p \in 1..Len(t) : Unmatched(p)}
        Innermost == CHOOSE p \in Open : \A q \in Open : q <= p
        Starts(k, p) ==
            /\ k < p
            /\ \A j \in k..(p - 1) : t[j] \in WordChars
            /\ k = 1 \/ t[k - 1] \notin WordChars
        Allowed(k) ==
            \/ k = 1
            \/ t[k - 1] \in {"(", ",", "="}
            \/ k >= 3 /\ t[k - 1] = "." /\ t[k - 2] = ")"
        foo == <<"f", "o", "o">>
    IN  /\ last.op = "get_incomplete_parameter"
           /\ symbol = <<"f", "o", "o", "(", "b", "a", "r", ",", " ", "q", "u">>
           => last.out = <<"q", "u">>
        /\ last.op = "propose_function_parameters" =>
             /\ symbol = <<"f", "o", "o", "(", "b", "a", "r", ",", " ",
                           "q", "u">>
                => last.found.function_name = foo
             /\ last.found.function_name # None =>
                   /\ Open # {} /\ last.found.i = Innermost
                   /\ \E k \in 1..Len(t) :
                         /\ Starts(k, Innermost)
                         /\ last.found.function_name
                               = SubSeq(t, k, Innermost - 1)
             /\ \A k \in 1..Len(t) :
                   Open # {} /\ Starts(k, Innermost) /\ Allowed(k)
                   => last.found.function_name = SubSeq(t, k, Innermost - 1)

EnclosingFunctionIsInnermostOpenReached ==
    /\ last.op = "propose_function_parameters"
    /\ symbol = <<"q", "u", "x", "(", ")", ".", "f", "o", "o", "(", "b", "a",
                  "r", "=", "k", "e", "y", "(", ")", ",", " ", "b", "l", "u",
                  "b", ",", " ", "5", ",">>
    /\ last.found.function_name = <<"f", "o", "o">>

\* C20: when the enclosing function is a known function, the proposals are
\* its parameters, each followed by "=", without those that occur as name=
\* between the "(" of the enclosing function and the cursor, and with all
\* the others.
UsedParametersAreNotProposed ==
    LET t == get_left_text(symbol)
        fn == last.found.function_name
        Occurs(name) ==
            \E a \in (last.found.i + 1)..Len(t) :
                /\ a + Len(name) <= Len(t)
                /\ SubSeq(t, a, a + Len(name) - 1) = name
                /\ t[a + Len(name)] = "="
                /\ t[a - 1] \notin WordChars
    IN  last.op = "propose_function_parameters" /\ fn \in DOMAIN FUNCTIONS =>
            \A n \in 1..Len(FUNCTIONS[fn]) :
                LET name == FUNCTIONS[fn][n]
                IN  (\E j \in 1..Len(last.out) :
                         last.out[j] = Append(name, "="))
                    <=> ~Occurs(name)

UsedParametersAreNotProposedReached ==
    /\ last.op = "propose_function_parameters"
    /\ symbol = <<"f", "o", "o", "(", "b", "a", "r", "=", "k", "e", "y", "(",
                  "b", "l", "u", "b", "=", "5", ")", ",", " ", "q">>
    /\ last.out = << <<"q", "u", "x", "=">> >>

\* C21: for the text foo(bar, qu, bar being a parameter of foo, the names in
\* use are {bar} and bar= is not among the proposals.
PositionalArgumentCountsAsUsed ==
    last.op = "propose_function_parameters"
    /\ symbol = <<"f", "o", "o", "(", "b", "a", "r", ",", " ", "q", "u">>
    => /\ last.found.used = {<<"b", "a", "r">>}
       /\ \A n \in 1..Len(last.out) : last.out[n] # <<"b", "a", "r", "=">>

\* C21 as amended: for foo(bar, qu no name is in use and the proposals are
\* bar= and qux=; for foo(bar=5, qu the names in use are {bar} and the only
\* proposal is qux=.
OnlyNamedArgumentCountsAsUsed ==
    last.op = "propose_function_parameters" =>
        /\ symbol = <<"f", "o", "o", "(", "b", "a", "r", ",", " ", "q", "u">>
           => /\ last.found.used = {}
              /\ last.out = << <<"b", "a", "r", "=">>, <<"q", "u", "x", "=">> >>
        /\ symbol = <<"f", "o", "o", "(", "b", "a", "r", "=", "5", ",", " ",
                      "q", "u">>
           => /\ last.found.used = {<<"b", "a", "r">>}
              /\ last.out = << <<"q", "u", "x", "=">> >>

OnlyNamedArgumentCountsAsUsedReached ==
    /\ last.op = "propose_function_parameters"
    /\ symbol = <<"f", "o", "o", "(", "b", "a", "r", "=", "5", ",", " ",
                  "q", "u">>
    /\ last.found.function_name = <<"f", "o", "o">>
    /\ last.found.used = {<<"b", "a", "r">>}

\* C22: when the text left of the cursor, whitespace and newlines aside, ends
\* with ")", ".", identifier (a().b), get_incomplete_function_name gives that
\* identifier in lower case and get_incomplete_parameter gives None.
ChainedNameIsFunctionName ==
    LET t == SelectSeq(symbol, LAMBDA c : c # " " /\ c # "\n")
        IsChain(k) ==
            /\ k >= 3 /\ t[k - 2] = ")" /\ t[k - 1] = "."
            /\ \A j \in k..Len(t) : t[j] \in WordChars
        Lowered(w) == [j \in 1..Len(w) |-> IF w[j] = "B" THEN "b" ELSE w[j]]
    IN  \A k \in 1..Len(t) :
            IsChain(k) =>
                /\ last.op = "get_incomplete_function_name"
                   => last.out = Lowered(SubSeq(t, k, Len(t)))
                /\ last.op = "get_incomplete_parameter" => last.out = None

ChainedNameIsFunctionNameReached ==
    /\ last.op = "get_incomplete_function_name"
    /\ symbol = <<"a", "(", ")", " ", ".", " ", "B">>
    /\ last.out = <<"b">>

\* C23: when update runs on the empty text with the cursor at 0, there is no
\* function name, no parameter and no symbol proposed, the popover has no
\* entry and is hidden.
EmptyTextProposesNothing ==
    last.op = "update" /\ buffer = <<>> /\ cursor = 0 =>
        /\ last.functions = <<>>
        /\ last.parameters = <<>>
        /\ last.symbols = <<>>
        /\ ~visible
        /\ last.updated => list_box = <<>>

EmptyTextProposesNothingReached ==
    /\ last.op = "update" /\ last.updated
    /\ buffer = <<>> /\ cursor = 0
    /\ ~visible

\* C24: update proposes no function name when the identifier that ends the
\* text left of the cursor has at most 1 character and no symbol when it has
\* at most 2; an incomplete function name of 2 or more characters that a
\* function name contains, and an incomplete symbol of 3 or more that a
\* symbol name contains, gets its proposals.
ShortIdentifierProposesNothing ==
    LET t == SelectSeq(SubSeq(buffer, 1, cursor),
                       LAMBDA c : c # " " /\ c # "\n")
        Run(k) == \A j \in k..Len(t) : t[j] \in WordChars
        length == Cardinality({k \in 1..Len(t) : Run(k)})
        Within(name, part) ==
            /\ Len(part) < Len(name)
            /\ \E a \in 1..(Len(name) - Len(part) + 1) :
                   SubSeq(lower(name), a, a + Len(part) - 1) = part
        function_name == get_incomplete_function_name(SubSeq(buffer, 1, cursor))
        parameter == get_incomplete_parameter(SubSeq(buffer, 1, cursor))
    IN  last.op = "update" /\ last.updated =>
            /\ length <= 1 => last.functions = <<>>
            /\ length <= 2 => last.symbols = <<>>
            /\ Len(function_name) >= 2
               /\ (\E n \in 1..Len(FUNCTION_NAMES) :
                       Within(FUNCTION_NAMES[n], function_name))
               => last.functions # <<>>
            /\ parameter # None /\ Len(parameter) >= 3
               /\ (\E n \in 1..Len(list_names) :
                       Within(list_names[n], parameter))
               => last.symbols # <<>>

ShortIdentifierProposesNothingReached ==
    /\ last.op = "update" /\ last.updated
    /\ SubSeq(buffer, 1, cursor) = <<"f", "a">>
    /\ last.functions # <<>>
    /\ last.symbols = <<>>

\* C25: with an incomplete function name of 2 or more characters, update
\* proposes exactly the names of FUNCTIONS, written as they are there, that
\* have more than one character, are not ifeq, contain the incomplete name
\* when put in lower case and are not equal to it; with an incomplete symbol
\* of 3 or more characters it proposes exactly the names of the
\* system_mapping, written as they are there, that contain it in lower case
\* and are not equal to it.
ProposalsAreTheContainingNames ==
    LET left == SubSeq(buffer, 1, cursor)
        function_name == get_incomplete_function_name(left)
        parameter == get_incomplete_parameter(left)
        Within(name, part) ==
            \E a \in 1..(Len(name) - Len(part) + 1) :
                SubSeq(lower(name), a, a + Len(part) - 1) = part
        Proposed(entries, name) ==
            \E n \in 1..Len(entries) : entries[n].name = name
    IN  last.op = "update" /\ last.updated =>
            /\ \A n \in 1..Len(last.functions) :
                   /\ last.functions[n].name \in DOMAIN FUNCTIONS
                   /\ Len(last.functions[n].name) > 1
                   /\ last.functions[n].name # <<"i", "f", "e", "q">>
            /\ \A n \in 1..Len(last.symbols) :
                   \E m \in 1..Len(list_names) :
                       last.symbols[n].name = list_names[m]
            /\ Len(function_name) >= 2 =>
                   \A name \in DOMAIN FUNCTIONS :
                       Len(name) > 1 /\ name # <<"i", "f", "e", "q">> =>
                           (Proposed(last.functions, name)
                            <=> /\ Within(name, function_name)
                                /\ lower(name) # function_name)
            /\ parameter # None /\ Len(parameter) >= 3 =>
                   \A m \in 1..Len(list_names) :
                       Proposed(last.symbols, list_names[m])
                       <=> /\ Within(list_names[m], parameter)
                           /\ lower(list_names[m]) # parameter

ProposalsAreTheContainingNamesReached ==
    /\ last.op = "update" /\ last.updated
    /\ SubSeq(buffer, 1, cursor) = <<"a", "f", "a">>
    /\ \E n \in 1..Len(last.symbols) :
           last.symbols[n].name = <<"A", "F", "A", "F">>
    /\ \E n \in 1..Len(last.functions) :
           last.functions[n].name = <<"f", "a", "f", "a">>

\* C26: the entries that update puts into the popover are the function
\* names, then the parameters of the enclosing function, then the symbols.
ParametersComeBeforeSymbols ==
    last.op = "update" /\ last.updated =>
        list_box = last.functions \o last.parameters \o last.symbols

\* C26 as amended: the entries are the function names, then the symbols,
\* then the parameters of the enclosing function.
SymbolsComeBeforeParameters ==
    last.op = "update" /\ last.updated =>
        list_box = last.functions \o last.symbols \o last.parameters

SymbolsComeBeforeParametersReached ==
    /\ last.op = "update" /\ last.updated
    /\ last.functions # <<>> /\ last.symbols # <<>> /\ last.parameters # <<>>
    /\ visible

\* C27: no two entries of the popover have the same text to insert.
InsertTextsAreDistinct ==
    \A i, j \in 1..Len(list_box) :
        i # j => list_box[i].name # list_box[j].name

\* C28: accepting the entry of a function puts name(param1, param2, ...)
\* into the buffer left of the cursor, the entry of a parameter name= and
\* the entry of a symbol its name.
FunctionIsInsertedWithBrackets ==
    last.op = "on_suggestion_clicked" =>
        /\ cursor >= Len(last.selected.display_name)
        /\ SubSeq(buffer, cursor - Len(last.selected.display_name) + 1, cursor)
               = last.selected.display_name

\* C28 as amended: accepting the entry of a function puts its name into the
\* buffer left of the cursor, name(param1, param2, ...) being what the entry
\* shows; the entry of a parameter puts name= and the entry of a symbol its
\* name.
FunctionIsInsertedByName ==
    LET inserted ==
            SubSeq(buffer, cursor - Len(last.inserted) + 1, cursor)
        shown == last.selected.display_name
        IsFunction == \E j \in 1..Len(shown) : shown[j] = "("
        IsParameter == shown[Len(shown)] = "="
        name_of_parameter == SubSeq(shown, 1, Len(shown) - 1)
    IN  last.op = "on_suggestion_clicked" =>
            /\ cursor >= Len(last.inserted)
            /\ IsFunction =>
                   /\ inserted \in DOMAIN FUNCTIONS
                   /\ shown = inserted \o <<"(">> \o join(FUNCTIONS[inserted])
                                  \o <<")">>
            /\ IsParameter =>
                   /\ inserted = shown
                   /\ \E f \in DOMAIN FUNCTIONS :
                          \E n \in 1..Len(FUNCTIONS[f]) :
                              FUNCTIONS[f][n] = name_of_parameter
            /\ ~IsFunction /\ ~IsParameter =>
                   /\ inserted = shown
                   /\ \E m \in 1..Len(list_names) : list_names[m] = inserted

FunctionIsInsertedByNameReached ==
    /\ last.op = "on_suggestion_clicked"
    /\ last.selected.display_name
           = <<"f", "o", "o", "(", "b", "a", "r", ",", " ", "q", "u", "x", ")">>
    /\ buffer = <<"f", "o", "o">>
    /\ cursor = 3

AcceptedTokenProposesNothing ==
    last.op = "update" /\ last.updated /\ last.inserted # None =>
        last.functions = <<>> /\ last.symbols = <<>>

\* C30 as amended: when update runs right after an entry was accepted, it
\* does not propose the accepted name again: every function name and symbol
\* it proposes is longer than the inserted text and contains it, and it
\* proposes none after a parameter was inserted.
AcceptedNameIsNotProposedAgain ==
    LET Longer(name) ==
            /\ Len(name) > Len(last.inserted)
            /\ \E a \in 1..(Len(name) - Len(last.inserted) + 1) :
                   SubSeq(lower(name), a, a + Len(last.inserted) - 1)
                       = lower(last.inserted)
    IN  last.op = "update" /\ last.updated /\ last.inserted # None =>
            /\ \A n \in 1..Len(last.functions) :
                   Longer(last.functions[n].name)
            /\ \A n \in 1..Len(last.symbols) : Longer(last.symbols[n].name)
            /\ last.inserted[Len(last.inserted)] = "=" =>
                   last.functions = <<>> /\ last.symbols = <<>>

AcceptedNameIsNotProposedAgainReached ==
    /\ last.op = "update" /\ last.updated
    /\ last.inserted = <<"A", "F", "A", "F">>
    /\ buffer = <<"A", "F", "A", "F">> /\ cursor = 4
    /\ last.symbols = << Entry(<<"A", "F", "A", "F", "A">>,
                               <<"A", "F", "A", "F", "A">>) >>

\* C31: a focus switch is scheduled only when a key event was accepted in
\* the current recording session; a combination the slot held before the
\* toggle gained the focus does not complete the recording on its own, as
\* when the only key pressed in the session was rejected as a duplicate.
CompletionNeedsAcceptedKey ==
    [][idle_queue' > idle_queue => session.recorded]_vars

\* C32: a burst of calls of the debounced function runs func once: func
\* runs only when the timer of the newest call is due, with the arguments of
\* that call, and not a second time before the next call; and every call is
\* eventually followed by a run of func.
BurstIsInvokedOnce ==
    /\ [][last'.op = "dispatch" /\ last' # last =>
             /\ \E s \in sources : s.due /\ s.id = debounces
             /\ last'.done.invoked = session.args
             /\ session.calls > 0
             /\ session'.invoked = 1]_vars
    /\ (session.calls > 0 ~> session.invoked = 1)

BurstIsInvokedOnceReached ==
    /\ last.op = "dispatch" /\ last.done.invoked = "b"
    /\ session.calls = 3 /\ session.invoked = 1 /\ sources = {}

\* C33: at most one timer of the debounced function is pending, the entry
\* of debounces holds a handle exactly when that timer is pending and is
\* None once it has fired, and source_remove is only called on a timer that
\* is still attached.
OnePendingTimer ==
    /\ Cardinality(sources) <= 1
    /\ sources = IF debounces = NoSource THEN {}
                 ELSE {s \in sources : s.id = debounces}
    /\ debounces # NoSource => \E s \in sources : s.id = debounces
    /\ last.op = "dispatch" => debounces = NoSource
    /\ last.done.removed # NoSource => last.done.attached

OnePendingTimerReached ==
    /\ last.op = "wrapped" /\ last.done.removed = 2 /\ debounces = 3
    /\ \E s \in sources : s.id = 3 /\ ~s.due

\* C34: after every run of update the popover is shown exactly when the
\* text input has the focus and update computed at least one suggestion;
\* the flag visible is the shown state of the popover; and after the text
\* input lost the focus the popover is eventually hidden.
ShownIffFocusedWithSuggestions ==
    /\ [](visible = is_shown)
    /\ [](last.op = "update" =>
             (is_shown <=> /\ last.updated
                        /\ last.functions \o last.symbols \o last.parameters
                               # <<>>))
    /\ (last.op = "on_text_input_unfocus" ~> ~is_shown)

ShownIffFocusedWithSuggestionsReached ==
    /\ last.op = "popdown" /\ ~is_shown /\ focus # "text"
    /\ list_box # <<>> /\ ~debounces

\* C35: a key press while the popover is hidden is not consumed and changes
\* nothing; while it is shown, Up and Down are consumed and move the
\* selection by one row, from no selection to the first row and past the
\* first or last row to no selection; Return is consumed and inserts the
\* selected suggestion when a row is selected and is forwarded otherwise;
\* Escape hides the popover; any other key clears the selection and is
\* forwarded.
NavigateHandlesKeys ==
    LET b == last.before
        rows == Len(b.list_box)
        moved == IF last.keyval = KEY_Down THEN b.selected_row + 1
                 ELSE b.selected_row - 1
        same_text == buffer = b.buffer /\ cursor = b.cursor
        name == b.list_box[b.selected_row + 1].name
    IN  last.op = "navigate" =>
            /\ ~b.visible =>
                   /\ last.ret = EVENT_PROPAGATE
                   /\ selected_row = b.selected_row
                   /\ ~visible /\ same_text
            /\ b.visible /\ last.keyval \in {KEY_Up, KEY_Down} =>
                   /\ last.ret = EVENT_STOP
                   /\ visible /\ same_text
                   /\ selected_row =
                          IF b.selected_row = NoRow THEN 0
                          ELSE IF moved < 0 \/ moved >= rows THEN NoRow
                          ELSE moved
            /\ b.visible /\ last.keyval = KEY_Return =>
                   IF b.selected_row = NoRow
                   THEN last.ret = EVENT_PROPAGATE /\ same_text
                   ELSE /\ last.ret = EVENT_STOP
                        /\ cursor >= Len(name)
                        /\ SubSeq(buffer, cursor - Len(name) + 1, cursor)
                               = name
            /\ b.visible /\ last.keyval = KEY_Escape => ~visible
            /\ b.visible /\ last.keyval = KEY_Left =>
                   /\ last.ret = EVENT_PROPAGATE
                   /\ selected_row = NoRow
                   /\ visible /\ same_text

NavigateHandlesKeysReached ==
    /\ last.op = "navigate" /\ last.keyval = KEY_Down
    /\ last.before.selected_row = Len(list_box) - 1
    /\ Len(list_box) > 1 /\ selected_row = NoRow /\ visible

\* C36: the slot list never holds two slots without a combination; after
\* check_add_new_key has run, on its timer or at the end of a reload of the
\* list, it holds exactly one; and check_add_new_key adds a slot exactly
\* when the list holds no slot without a combination.
EmptySlots == {i \in 1..Len(selection_labels) : selection_labels[i] = NoKey}

OneEmptySlot ==
    /\ [](Cardinality(EmptySlots) <= 1)
    /\ [](last.op \in {"check_add_new_key", "load_custom_mapping"}
            => Cardinality(EmptySlots) = 1)
    /\ [](last.op = "delete" /\ last.out.confirm # "reject"
            => Cardinality(EmptySlots) = 1)
    /\ [][CheckAddNewKey =>
             selection_labels' = IF EmptySlots = {}
                                 THEN Append(selection_labels, NoKey)
                                 ELSE selection_labels]_vars

OneEmptySlotReached ==
    /\ last.op = "check_add_new_key"
    /\ Len(selection_labels) = 2 /\ EmptySlots = {2}
    /\ custom_mapping = <<>>

\* C38: the delete button asks for confirmation exactly when the text is not
\* empty; when the user declines, the store, the slot list, the combination
\* of the slot and the text stay as they are; otherwise the entry of the
\* active slot's combination is removed from the store and every other
\* entry stays as it is.
DeleteAsksAndRemovesOneEntry ==
    [][DeleteClicked =>
         /\ last'.out.confirm # "none" <=> symbol # ""
         /\ last'.out.confirm = "reject" =>
                UNCHANGED <<custom_mapping, selection_labels,
                            active_selection_label, symbol,
                            unsaved_changes>>
         /\ last'.out.confirm # "reject" =>
                custom_mapping' =
                    SelectSeq(custom_mapping, LAMBDA e : e.key # GetKey)]_vars

DeleteAsksAndRemovesOneEntryReached ==
    /\ last.op = "delete" /\ last.out.confirm = "accept"
    /\ Len(custom_mapping) = 1 /\ Len(selection_labels) = 2
    /\ unsaved_changes

\* C37: after check_add_row has run, the rows displayed are as many as the
\* entries of the store or one more, and at least one row has no
\* combination or no symbol.
RowsMatchStore ==
    last.op = "check_add_row" =>
        /\ Len(custom_mapping) <= Len(mapping_list)
        /\ Len(mapping_list) <= Len(custom_mapping) + 1
        /\ \E i \in 1..Len(mapping_list) :
               mapping_list[i].key = NoKey \/ mapping_list[i].symbol = ""

\* C39: the row that keeps IDLE and HOLDING and the recorder that keeps
\* input_has_arrived stay in step when they get the same focus changes,
\* polls and texts: the row is HOLDING exactly when the flag is set, they
\* hold the same combination and the same store, and every poll schedules
\* a focus switch in both or in neither.
VariantsAreEquivalent ==
    /\ mapping_list[1].state = HOLDING <=> flag_variant.input_has_arrived
    /\ mapping_list[1].key = flag_variant.key
    /\ custom_mapping = flag_variant.custom_mapping
    /\ last.op = "poll" =>
           /\ last.out.sched = last.single.sched
           /\ last.out.changed = last.single.changed
====
